---- MODULE Spec2Model ----
(***************************************************************************)
(* Model of farms/farmer_registration_service.py                           *)
(* (CompleteFarmerRegistrationService): the unified farmer registration,   *)
(* its reference resolution and the post-registration sync fan-out.        *)
(*                                                                         *)
(* Conventions.  A Python dict is a function whose DOMAIN is the set of    *)
(* keys present.  Python strings that the code inspects character by       *)
(* character (phone numbers, free-text codes) are sequences of one-        *)
(* character strings; other strings are TLA+ strings with "" the empty     *)
(* string.  A null foreign key or a missing id is 0.  An absent / None /   *)
(* empty sub-dict is the empty function <<>> (all three are falsy and the  *)
(* code only ever tests their truthiness).                                 *)
(***************************************************************************)
EXTENDS Integers, Sequences, FiniteSets, TLC

VARIABLES store, req, res, ncalls

vars == <<store, req, res, ncalls>>

----------------------------------------------------------------------------
(* Bounds of the model *)

MaxCalls == 2
MaxGroups == 2
MaxCropCalls == 3
MaxRefCalls == 2
MaxTokens == 2
ClockStep == 30
MaxClock == 120
MaxDigits == 12

----------------------------------------------------------------------------
(* Python primitives *)

NoneId == 0
NoneDict == <<>>
NoneSeq == <<"None">>

Get(d, k, default) == IF k \in DOMAIN d THEN d[k] ELSE default

TruthyDict(d) == DOMAIN d # {}
TruthyStr(s) == s # ""
TruthySeq(s) == s # NoneSeq /\ s # <<>>
TruthyId(i) == i # NoneId

Digits == {"0", "1", "2", "3", "4", "5", "6", "7", "8", "9"}
Whitespace == {" "}

RECURSIVE LStrip(_)
LStrip(s) == IF s # <<>> /\ Head(s) \in Whitespace THEN LStrip(Tail(s)) ELSE s

RECURSIVE RStrip(_)
RStrip(s) ==
  IF s # <<>> /\ s[Len(s)] \in Whitespace
  THEN RStrip(SubSeq(s, 1, Len(s) - 1))
  ELSE s

Strip(s) == RStrip(LStrip(s))

IsDigitChar(c) == c \in Digits
ReSubNonDigits(s) == SelectSeq(s, IsDigitChar)

StartsWith91(s) == Len(s) >= 2 /\ s[1] = "9" /\ s[2] = "1"

RECURSIVE Rep(_, _)
Rep(c, n) == IF n = 0 THEN <<>> ELSE <<c>> \o Rep(c, n - 1)

Range(s) == {s[i] : i \in 1..Len(s)}

Ok(st, v) == [ok |-> TRUE, store |-> st, val |-> v, err |-> ""]
Raise(st, msg) == [ok |-> FALSE, store |-> st, val |-> 0, err |-> msg]

----------------------------------------------------------------------------
(* The entity store *)

\* Field officers are rows of the User table that exist before any
\* registration: 1 works for industry A, 2 for industry B, 3 has no industry.
InitUsers ==
  << [username |-> "foA", email |-> "foA@x", phone_number |-> NoneSeq,
      role |-> "fieldofficer", created_by |-> NoneId, industry |-> 1],
     [username |-> "foB", email |-> "foB@x", phone_number |-> NoneSeq,
      role |-> "fieldofficer", created_by |-> NoneId, industry |-> 2],
     [username |-> "foX", email |-> "foX@x", phone_number |-> NoneSeq,
      role |-> "fieldofficer", created_by |-> NoneId, industry |-> NoneId] >>

InitStore ==
  [ users |-> InitUsers,
    roles |-> {"farmer", "fieldofficer"},
    plots |-> <<>>,
    farms |-> <<>>,
    irrigations |-> <<>>,
    soil_types |-> <<>>,
    crop_types |-> <<>>,
    plantation_types |-> <<>>,
    planting_methods |-> <<>>,
    irrigation_types |-> <<>> ]

\* QuerySet.first() over the ids a filter selects, rows being kept in id order
Min(S) == CHOOSE x \in S : \A y \in S : x <= y
FirstId(S) == IF S = {} THEN NoneId ELSE Min(S)

OfficerIndustry(st, fo) == IF fo = NoneId THEN NoneId ELSE st.users[fo].industry

Farmers(st) == {i \in 1..Len(st.users) : st.users[i].role = "farmer"}

----------------------------------------------------------------------------
(* _create_farmer *)

RequiredFarmerFields == <<"username", "email", "password", "first_name", "last_name">>

MissingFarmerFields(fd) ==
  {i \in 1..Len(RequiredFarmerFields) : ~TruthyStr(Get(fd, RequiredFarmerFields[i], ""))}

\* a phone_number that is a non-zero number instead of a string
IntPhone == <<"int">>

\* lines 152-159: strip, drop the non-digits, drop a leading 91 of 12 digits
StrippedPhone(fd) ==
  IF TruthySeq(Get(fd, "phone_number", NoneSeq))
  THEN Strip(fd["phone_number"])
  ELSE <<>>

CleanedPhoneNoPrefix(p) == ReSubNonDigits(p)

CleanedPhone(p) ==
  LET c == ReSubNonDigits(p)
  IN  IF StartsWith91(c) /\ Len(c) = 12 THEN SubSeq(c, 3, Len(c)) ELSE c

PhoneLengthOk(c) == Len(c) = 10

PhoneTakenRaw(st, raw, cleaned) ==
  \E i \in 1..Len(st.users) : st.users[i].phone_number = raw

PhoneTaken(st, raw, cleaned) ==
  \E i \in 1..Len(st.users) : st.users[i].phone_number = cleaned

OfficerLacksIndustryNever(st, fo) == FALSE

OfficerLacksIndustry(st, fo) ==
  fo # NoneId /\ ~TruthyId(st.users[fo].industry)

\* lines 143-149 in the other order
create_farmer_email_first(st, fd, fo) ==
  IF ~TruthyDict(fd) THEN Raise(st, "Farmer data is required")
  ELSE IF MissingFarmerFields(fd) # {}
  THEN Raise(st, "Farmer field is required")
  ELSE IF \E i \in 1..Len(st.users) : st.users[i].email = fd["email"]
  THEN Raise(st, "Email already exists")
  ELSE IF \E i \in 1..Len(st.users) : st.users[i].username = fd["username"]
  THEN Raise(st, "Username already exists")
  ELSE IF Get(fd, "phone_number", NoneSeq) = IntPhone
  THEN \* line 152: .strip() on a value that is no string
       Raise(st, "'int' object has no attribute 'strip'")
  ELSE
    LET phone_number == StrippedPhone(fd)
        cleaned_phone == CleanedPhone(phone_number)
        stored_phone == IF phone_number # <<>> THEN cleaned_phone ELSE NoneSeq
    IN
    IF phone_number # <<>> /\ ~PhoneLengthOk(cleaned_phone)
    THEN Raise(st, "Phone number must be 10 digits")
    ELSE IF phone_number # <<>> /\ PhoneTaken(st, phone_number, cleaned_phone)
    THEN Raise(st, "User with phone number already exists")
    ELSE IF OfficerLacksIndustry(st, fo)
    THEN Raise(st, "Field officer must be assigned to an industry")
    ELSE IF "farmer" \notin st.roles
    THEN Raise(st, "Farmer role not found in system")
    ELSE
      LET farmer == [username |-> fd["username"], email |-> fd["email"],
                     phone_number |-> stored_phone, role |-> "farmer",
                     created_by |-> fo,
                     industry |-> OfficerIndustry(st, fo)]
      IN  Ok([st EXCEPT !.users = Append(@, farmer)], Len(st.users) + 1)

create_farmer(st, fd, fo) ==
  IF ~TruthyDict(fd) THEN Raise(st, "Farmer data is required")
  ELSE IF MissingFarmerFields(fd) # {}
  THEN Raise(st, "Farmer field is required")
  ELSE IF \E i \in 1..Len(st.users) : st.users[i].username = fd["username"]
  THEN Raise(st, "Username already exists")
  ELSE IF \E i \in 1..Len(st.users) : st.users[i].email = fd["email"]
  THEN Raise(st, "Email already exists")
  ELSE IF Get(fd, "phone_number", NoneSeq) = IntPhone
  THEN \* line 152: .strip() on a value that is no string
       Raise(st, "'int' object has no attribute 'strip'")
  ELSE
    LET phone_number == StrippedPhone(fd)
        cleaned_phone == CleanedPhone(phone_number)
        stored_phone == IF phone_number # <<>> THEN cleaned_phone ELSE NoneSeq
    IN
    IF phone_number # <<>> /\ ~PhoneLengthOk(cleaned_phone)
    THEN Raise(st, "Phone number must be 10 digits")
    ELSE IF phone_number # <<>> /\ PhoneTaken(st, phone_number, cleaned_phone)
    THEN Raise(st, "User with phone number already exists")
    ELSE IF OfficerLacksIndustry(st, fo)
    THEN Raise(st, "Field officer must be assigned to an industry")
    ELSE IF "farmer" \notin st.roles
    THEN Raise(st, "Farmer role not found in system")
    ELSE
      LET farmer == [username |-> fd["username"], email |-> fd["email"],
                     phone_number |-> stored_phone, role |-> "farmer",
                     created_by |-> fo,
                     industry |-> OfficerIndustry(st, fo)]
      IN  Ok([st EXCEPT !.users = Append(@, farmer)], Len(st.users) + 1)

----------------------------------------------------------------------------
(* _convert_geojson_to_geometry *)

\* A geometry input is [kind, keys, geos]: kind is the Python type ("dict",
\* "str" or "other"), keys the keys of a dict, and geos what GEOSGeometry
\* answers for it: the geometry, or "" when it raises.  A "str" input is a
\* non-empty string (an empty one is falsy, like an absent key).
OriginPoint == "POINT(0 0)"

TruthyGeo(g) ==
  /\ g # NoneDict
  /\ (g.kind = "dict" => g.keys # {})

convert_geojson_lenient(st, g) ==
  IF g.kind \in {"dict", "str"} /\ g.geos # "" THEN Ok(st, g.geos) ELSE Ok(st, "")

convert_geojson_to_geometry(st, g) ==
  IF g.kind = "dict"
  THEN IF "type" \notin g.keys THEN Raise(st, "Invalid geometry data: GeoJSON must have 'type' field")
       ELSE IF "coordinates" \notin g.keys
       THEN Raise(st, "Invalid geometry data: GeoJSON must have 'coordinates' field")
       ELSE IF g.geos = "" THEN Raise(st, "Invalid geometry data")
       ELSE Ok(st, g.geos)
  ELSE IF g.kind = "str"
  THEN IF g.geos = "" THEN Raise(st, "Invalid geometry data")
       ELSE Ok(st, g.geos)
  ELSE Raise(st, "Invalid geometry data: Invalid geometry data type")

----------------------------------------------------------------------------
(* _create_plot *)

RequiredPlotFields == <<"gat_number", "village", "district", "state">>

MissingPlotFields(pd) ==
  {i \in 1..Len(RequiredPlotFields) : ~TruthyStr(Get(pd, RequiredPlotFields[i], ""))}

SamePlotKeyNoDefault(row, pd) ==
  /\ row.gat_number = pd["gat_number"]
  /\ row.plot_number = Get(pd, "plot_number", "None")
  /\ row.village = pd["village"]
  /\ row.district = pd["district"]

\* lines 227-232: the filter of the duplicate check
SamePlotKey(row, pd) ==
  /\ row.gat_number = pd["gat_number"]
  /\ row.plot_number = Get(pd, "plot_number", "")
  /\ row.village = pd["village"]
  /\ row.district = pd["district"]

PlotGeometry(st, pd, k) ==
  IF TruthyGeo(Get(pd, k, NoneDict))
  THEN convert_geojson_to_geometry(st, pd[k])
  ELSE Ok(st, "")

PlotAfterGeometryNoSkip(st, pd, farmer, fo, loc, bnd) ==
  IF ~loc.ok THEN loc
  ELSE IF ~bnd.ok THEN bnd
  ELSE Ok([st EXCEPT !.plots =
              Append(@, [gat_number |-> pd["gat_number"],
                         plot_number |-> Get(pd, "plot_number", ""),
                         village |-> pd["village"],
                         district |-> pd["district"],
                         state |-> pd["state"],
                         farmer |-> farmer,
                         created_by |-> fo,
                         location |-> loc.val,
                         boundary |-> bnd.val,
                         skip_fastapi_sync |-> FALSE])],
          Len(st.plots) + 1)

\* lines 239-270; taluka, country and pin_code are copied to the row unread
\* and are left out
PlotAfterGeometry(st, pd, farmer, fo, loc, bnd) ==
  IF ~loc.ok THEN loc
  ELSE IF ~bnd.ok THEN bnd
  ELSE Ok([st EXCEPT !.plots =
              Append(@, [gat_number |-> pd["gat_number"],
                         plot_number |-> Get(pd, "plot_number", ""),
                         village |-> pd["village"],
                         district |-> pd["district"],
                         state |-> pd["state"],
                         farmer |-> farmer,
                         created_by |-> fo,
                         location |-> loc.val,
                         boundary |-> bnd.val,
                         skip_fastapi_sync |-> TRUE])],
          Len(st.plots) + 1)

create_plot(st, pd, farmer, fo) ==
  IF ~TruthyDict(pd) THEN Ok(st, NoneId)
  ELSE IF MissingPlotFields(pd) # {} THEN Raise(st, "Plot field is required")
  ELSE IF \E i \in 1..Len(st.plots) : SamePlotKey(st.plots[i], pd)
  THEN Raise(st, "Plot already exists")
  ELSE PlotAfterGeometry(st, pd, farmer, fo,
                         PlotGeometry(st, pd, "location"), PlotGeometry(st, pd, "boundary"))

----------------------------------------------------------------------------
(* _sync_plot_to_fastapi_services *)

sync_services == <<"events.py", "soil.py/main.py", "Admin.py", "ET.py", "field.py">>

\* What one target does when called: "true" / "false" (its result) or
\* "raise" (it raises an Exception).
SyncOutcomes == {"true", "false", "raise"}

EmptyReport ==
  [successful |-> <<>>, failed |-> <<>>, invoked |-> <<>>, raised |-> FALSE]

SyncExceptPropagates(rep, name) == [rep EXCEPT !.raised = TRUE]

\* lines 638-640: the except clause of one iteration
SyncExcept(rep, name) ==
  [rep EXCEPT !.failed = Append(@, [name |-> name, reason |-> "exception"])]

SyncResultFalseRaises(rep, name, result) ==
  IF result = "true"
  THEN [rep EXCEPT !.successful = Append(@, name)]
  ELSE [rep EXCEPT !.raised = TRUE]

\* lines 631-636: the result of one target
SyncResult(rep, name, result) ==
  IF result = "true"
  THEN [rep EXCEPT !.successful = Append(@, name)]
  ELSE [rep EXCEPT !.failed = Append(@, [name |-> name, reason |-> "returned False"])]

RECURSIVE SyncLoop(_, _, _)
SyncLoop(rep, i, outcome) ==
  IF i > Len(sync_services) \/ rep.raised THEN rep
  ELSE
    LET name == sync_services[i]
        called == [rep EXCEPT !.invoked = Append(@, name)]
    IN  SyncLoop(IF outcome[i] = "raise"
                 THEN SyncExcept(called, name)
                 ELSE SyncResult(called, name, outcome[i]),
                 i + 1, outcome)

sync_plot_to_fastapi_services(plot, outcome) == SyncLoop(EmptyReport, 1, outcome)

----------------------------------------------------------------------------
(* Tagged Python values, for the fields whose type the code inspects *)

PyNone == [t |-> "none", v |-> 0]
PyStr(chars) == [t |-> "str", v |-> chars]
PyInt(n) == [t |-> "int", v |-> n]
PyObj(id) == [t |-> "obj", v |-> id]
PyDate(y, m, d) == [t |-> "date", v |-> <<y, m, d>>]

PyTruthy(x) ==
  CASE x.t = "none" -> FALSE
    [] x.t = "str" -> x.v # <<>>
    [] x.t = "int" -> x.v # 0
    [] OTHER -> TRUE

DigitValue(c) == CHOOSE n \in 0..9 : <<"0", "1", "2", "3", "4", "5", "6", "7", "8", "9">>[n + 1] = c

IsDigitStr(chars) == chars # <<>> /\ \A i \in 1..Len(chars) : chars[i] \in Digits

RECURSIVE IntOf(_)
IntOf(chars) ==
  IF chars = <<>> THEN 0
  ELSE 10 * IntOf(SubSeq(chars, 1, Len(chars) - 1)) + DigitValue(chars[Len(chars)])

LowerLetters == <<"a", "b", "c", "d">>
UpperLetters == <<"A", "B", "C", "D">>

IsLower(c) == \E i \in 1..Len(LowerLetters) : LowerLetters[i] = c
IsUpper(c) == \E i \in 1..Len(UpperLetters) : UpperLetters[i] = c
ToUpper(c) ==
  IF IsLower(c) THEN UpperLetters[CHOOSE i \in 1..Len(LowerLetters) : LowerLetters[i] = c] ELSE c
ToLower(c) ==
  IF IsUpper(c) THEN LowerLetters[CHOOSE i \in 1..Len(UpperLetters) : UpperLetters[i] = c] ELSE c

\* str.replace('_', ' ')
ReplaceUnderscores(chars) == [i \in 1..Len(chars) |-> IF chars[i] = "_" THEN " " ELSE chars[i]]

\* str.title(): a letter that follows a non-letter is upper-cased, any other
\* letter lower-cased
Title(chars) ==
  [i \in 1..Len(chars) |->
     IF i = 1 \/ ~(IsLower(chars[i - 1]) \/ IsUpper(chars[i - 1]))
     THEN ToUpper(chars[i])
     ELSE ToLower(chars[i])]

TitleName(code) == Title(ReplaceUnderscores(code))

----------------------------------------------------------------------------
(* plantation_date: datetime.strptime(value, '%Y-%m-%d').date() *)

\* positions of the '-' separators
Dashes(chars) == {i \in 1..Len(chars) : chars[i] = "-"}

IsLeap(y) == (y % 4 = 0 /\ y % 100 # 0) \/ y % 400 = 0

DaysIn(y, m) ==
  IF m = 2 THEN (IF IsLeap(y) THEN 29 ELSE 28)
  ELSE IF m \in {4, 6, 9, 11} THEN 30 ELSE 31

\* %Y is exactly four digits; %m and %d are one or two digits in range
ParseIsoDate(chars) ==
  IF Cardinality(Dashes(chars)) # 2 THEN PyNone
  ELSE
    LET d1 == Min(Dashes(chars))
        d2 == CHOOSE i \in Dashes(chars) : i # d1
        ys == SubSeq(chars, 1, d1 - 1)
        ms == SubSeq(chars, d1 + 1, d2 - 1)
        ds == SubSeq(chars, d2 + 1, Len(chars))
    IN  IF /\ Len(ys) = 4 /\ IsDigitStr(ys)
           /\ Len(ms) \in {1, 2} /\ IsDigitStr(ms)
           /\ Len(ds) \in {1, 2} /\ IsDigitStr(ds)
           /\ IntOf(ys) >= 1
           /\ IntOf(ms) \in 1..12
           /\ IntOf(ds) \in 1..DaysIn(IntOf(ys), IntOf(ms))
        THEN PyDate(IntOf(ys), IntOf(ms), IntOf(ds))
        ELSE PyNone

\* lines 446-459
parse_plantation_date(x) ==
  IF ~PyTruthy(x) THEN PyNone
  ELSE IF x.t = "str" THEN ParseIsoDate(x.v)
  ELSE x

----------------------------------------------------------------------------
(* _create_farm: reference resolution *)

\* Model.objects.get(id=...)
HasId(tbl, id) == id \in 1..Len(tbl)

\* lines 286-296 (SoilType) and 487-497 (IrrigationType): id, else name
NamedIds(tbl, name) == {i \in 1..Len(tbl) : tbl[i].name = name}

ResolveSoilTypeLenient(st, fd) ==
  IF TruthyId(Get(fd, "soil_type_id", NoneId)) /\ HasId(st.soil_types, fd["soil_type_id"])
  THEN Ok(st, fd["soil_type_id"])
  ELSE IF TruthyStr(Get(fd, "soil_type_name", ""))
  THEN LET hit == NamedIds(st.soil_types, fd["soil_type_name"])
       IN  IF Cardinality(hit) > 1 THEN Raise(st, "MultipleObjectsReturned")
           ELSE IF hit # {} THEN Ok(st, FirstId(hit))
           ELSE Ok([st EXCEPT !.soil_types =
                       Append(@, [name |-> fd["soil_type_name"], description |-> "Auto-created"])],
                   Len(st.soil_types) + 1)
  ELSE Ok(st, NoneId)

ResolveSoilType(st, fd) ==
  IF TruthyId(Get(fd, "soil_type_id", NoneId))
  THEN IF HasId(st.soil_types, fd["soil_type_id"])
       THEN Ok(st, fd["soil_type_id"])
       ELSE Raise(st, "Soil type ID not found")
  ELSE IF TruthyStr(Get(fd, "soil_type_name", ""))
  THEN LET hit == NamedIds(st.soil_types, fd["soil_type_name"])
       IN  IF Cardinality(hit) > 1 THEN Raise(st, "MultipleObjectsReturned")
           ELSE IF hit # {} THEN Ok(st, FirstId(hit))
           ELSE Ok([st EXCEPT !.soil_types =
                       Append(@, [name |-> fd["soil_type_name"], description |-> "Auto-created"])],
                   Len(st.soil_types) + 1)
  ELSE Ok(st, NoneId)

\* lines 312-355
PTByCode(st, code, industry) ==
  {i \in 1..Len(st.plantation_types) :
     st.plantation_types[i].code = code /\ st.plantation_types[i].industry = industry}
PTByName(st, name, industry) ==
  {i \in 1..Len(st.plantation_types) :
     st.plantation_types[i].name = name /\ st.plantation_types[i].industry = industry}
PTByCodeAnyNever(st, code) == {}

PTByCodeAny(st, code) ==
  {i \in 1..Len(st.plantation_types) : st.plantation_types[i].code = code}
PTByNameAny(st, name) ==
  {i \in 1..Len(st.plantation_types) : st.plantation_types[i].name = name}

\* A free text holding a NUL character: the database driver refuses it with
\* a ValueError before any statement is sent, so the first query of the try
\* block (line 329, line 376 or 388) raises and the except clause logs it
LookupRaises(v) == \E i \in 1..Len(v) : v[i] = "NUL"

ResolvePlantationType(st, fd, industry) ==
  IF TruthyId(Get(fd, "plantation_type_id", NoneId))
  THEN IF HasId(st.plantation_types, fd["plantation_type_id"])
       THEN Ok(st, fd["plantation_type_id"])
       ELSE Raise(st, "Plantation type ID not found")
  ELSE IF PyTruthy(Get(fd, "plantation_type", PyNone))
  THEN LET pt_value == fd["plantation_type"] IN
       IF pt_value.t = "obj" THEN Ok(st, pt_value.v)
       ELSE IF pt_value.t = "str"
       THEN IF LookupRaises(pt_value.v) THEN Ok(st, NoneId)  \* lines 354-355
       ELSE LET v == pt_value.v
                found == IF PTByCode(st, v, industry) # {} THEN FirstId(PTByCode(st, v, industry))
                         ELSE IF PTByName(st, v, industry) # {} THEN FirstId(PTByName(st, v, industry))
                         ELSE IF PTByCodeAny(st, v) # {} THEN FirstId(PTByCodeAny(st, v))
                         ELSE FirstId(PTByNameAny(st, v))
            IN  IF found # NoneId THEN Ok(st, found)
                ELSE \* get_or_create(industry, code): no row has this code
                     Ok([st EXCEPT !.plantation_types =
                            Append(@, [industry |-> industry, code |-> v,
                                       name |-> TitleName(v), is_active |-> TRUE])],
                        Len(st.plantation_types) + 1)
       ELSE Ok(st, NoneId)
  ELSE Ok(st, NoneId)

\* lines 358-410
PMByCode(st, code, pt) ==
  {i \in 1..Len(st.planting_methods) :
     st.planting_methods[i].code = code /\ st.planting_methods[i].plantation_type = pt}
PMByName(st, name, pt) ==
  {i \in 1..Len(st.planting_methods) :
     st.planting_methods[i].name = name /\ st.planting_methods[i].plantation_type = pt}
PMByCodeAny(st, code) ==
  {i \in 1..Len(st.planting_methods) : st.planting_methods[i].code = code}
PMByNameAny(st, name) ==
  {i \in 1..Len(st.planting_methods) : st.planting_methods[i].name = name}

ResolvePlantingMethod(st, fd, industry, plantation_type) ==
  IF TruthyId(Get(fd, "planting_method_id", NoneId))
  THEN IF HasId(st.planting_methods, fd["planting_method_id"])
       THEN Ok(st, fd["planting_method_id"])
       ELSE Raise(st, "Planting method ID not found")
  ELSE IF PyTruthy(Get(fd, "planting_method", PyNone))
  THEN LET pm_value == fd["planting_method"] IN
       IF pm_value.t = "obj" THEN Ok(st, pm_value.v)
       ELSE IF pm_value.t = "str"
       THEN IF LookupRaises(pm_value.v) THEN Ok(st, NoneId)  \* lines 409-410
       ELSE LET v == pm_value.v
                scoped == IF plantation_type = NoneId THEN NoneId
                          ELSE IF PMByCode(st, v, plantation_type) # {}
                          THEN FirstId(PMByCode(st, v, plantation_type))
                          ELSE FirstId(PMByName(st, v, plantation_type))
                found == IF scoped # NoneId THEN scoped
                         ELSE IF PMByCodeAny(st, v) # {} THEN FirstId(PMByCodeAny(st, v))
                         ELSE FirstId(PMByNameAny(st, v))
            IN  IF found # NoneId THEN Ok(st, found)
                ELSE \* get_or_create(plantation_type, industry, code): no row has this code
                     Ok([st EXCEPT !.planting_methods =
                            Append(@, [plantation_type |-> plantation_type,
                                       industry |-> industry, code |-> v,
                                       name |-> TitleName(v), is_active |-> TRUE])],
                        Len(st.planting_methods) + 1)
       ELSE Ok(st, NoneId)
  ELSE Ok(st, NoneId)

CropByNameOnly(st, name, pt, pm) ==
  {i \in 1..Len(st.crop_types) : st.crop_types[i].crop_type = name}

\* lines 418-422: the filter on the triple
CropByTriple(st, name, pt, pm) ==
  {i \in 1..Len(st.crop_types) :
     /\ st.crop_types[i].crop_type = name
     /\ st.crop_types[i].plantation_type = pt
     /\ st.crop_types[i].planting_method = pm}

CropByName(st, name) ==
  {i \in 1..Len(st.crop_types) : st.crop_types[i].crop_type = name}

\* lines 412-444
ResolveCropTypeByName(st, crop_type_name, plantation_type, planting_method) ==
  IF plantation_type # NoneId \/ planting_method # NoneId
  THEN LET hit == FirstId(CropByTriple(st, crop_type_name, plantation_type, planting_method))
       IN  IF hit = NoneId
           THEN Ok([st EXCEPT !.crop_types =
                       Append(@, [crop_type |-> crop_type_name,
                                  plantation_type |-> plantation_type,
                                  planting_method |-> planting_method,
                                  industry |-> NoneId])],
                   Len(st.crop_types) + 1)
           ELSE IF st.crop_types[hit].plantation_type # plantation_type
                   \/ st.crop_types[hit].planting_method # planting_method
           THEN Ok([st EXCEPT !.crop_types[hit].plantation_type = plantation_type,
                              !.crop_types[hit].planting_method = planting_method], hit)
           ELSE Ok(st, hit)
  ELSE \* get_or_create(crop_type=name)
       LET hit == CropByName(st, crop_type_name)
       IN  IF Cardinality(hit) > 1 THEN Raise(st, "MultipleObjectsReturned")
           ELSE IF hit # {} THEN Ok(st, FirstId(hit))
           ELSE Ok([st EXCEPT !.crop_types =
                       Append(@, [crop_type |-> crop_type_name,
                                  plantation_type |-> NoneId,
                                  planting_method |-> NoneId,
                                  industry |-> NoneId])],
                   Len(st.crop_types) + 1)

\* lines 298-444
CropAfterMethod(pt, pm, fd) ==
  IF ~pm.ok THEN pm
  ELSE ResolveCropTypeByName(pm.store, fd["crop_type_name"], pt.val, pm.val)

CropAfterPlantation(pt, fd, industry) ==
  IF ~pt.ok THEN pt
  ELSE CropAfterMethod(pt, ResolvePlantingMethod(pt.store, fd, industry, pt.val), fd)

ResolveCropType(st, fd, fo) ==
  IF TruthyId(Get(fd, "crop_type_id", NoneId))
  THEN IF HasId(st.crop_types, fd["crop_type_id"])
       THEN Ok(st, fd["crop_type_id"])
       ELSE Raise(st, "Crop type ID not found")
  ELSE IF TruthyStr(Get(fd, "crop_type_name", ""))
  THEN CropAfterPlantation(ResolvePlantationType(st, fd, OfficerIndustry(st, fo)),
                           fd, OfficerIndustry(st, fo))
  ELSE Ok(st, NoneId)

----------------------------------------------------------------------------
(* _create_farm *)

\* Farm of farms/models.py: spacing_a and spacing_b are optional and a farm
\* keeps the spacing it is created with
SpacingStored(x) == x

FarmAfterCropNoPlot(soil, crop, fd, farmer, fo, plot) ==
  IF ~crop.ok THEN crop
  ELSE Ok([crop.store EXCEPT !.farms =
              Append(@, [address |-> fd["address"],
                         area_size |-> fd["area_size"],
                         farm_owner |-> farmer,
                         created_by |-> fo,
                         plot |-> NoneId,
                         soil_type |-> soil.val,
                         crop_type |-> crop.val,
                         plantation_date |->
                           parse_plantation_date(Get(fd, "plantation_date", PyNone)),
                         spacing_a |-> SpacingStored(Get(fd, "spacing_a", PyNone)),
                         spacing_b |-> SpacingStored(Get(fd, "spacing_b", PyNone))])],
          Len(crop.store.farms) + 1)

\* lines 461-476
FarmAfterCrop(soil, crop, fd, farmer, fo, plot) ==
  IF ~crop.ok THEN crop
  ELSE Ok([crop.store EXCEPT !.farms =
              Append(@, [address |-> fd["address"],
                         area_size |-> fd["area_size"],
                         farm_owner |-> farmer,
                         created_by |-> fo,
                         plot |-> plot,
                         soil_type |-> soil.val,
                         crop_type |-> crop.val,
                         plantation_date |->
                           parse_plantation_date(Get(fd, "plantation_date", PyNone)),
                         spacing_a |-> SpacingStored(Get(fd, "spacing_a", PyNone)),
                         spacing_b |-> SpacingStored(Get(fd, "spacing_b", PyNone))])],
          Len(crop.store.farms) + 1)

FarmAfterSoil(soil, fd, farmer, fo, plot) ==
  IF ~soil.ok THEN soil
  ELSE FarmAfterCrop(soil, ResolveCropType(soil.store, fd, fo), fd, farmer, fo, plot)

create_farm(st, fd, farmer, fo, plot) ==
  IF ~TruthyDict(fd) THEN Ok(st, NoneId)
  ELSE IF ~TruthyStr(Get(fd, "address", "")) THEN Raise(st, "Farm address is required")
  ELSE IF ~TruthyId(Get(fd, "area_size", 0)) THEN Raise(st, "Farm area_size is required")
  ELSE FarmAfterSoil(ResolveSoilType(st, fd), fd, farmer, fo, plot)

----------------------------------------------------------------------------
(* _create_farm_irrigation *)

SqFtPerAcre == 43560

ResolveIrrigationType(st, idata) ==
  IF TruthyId(Get(idata, "irrigation_type_id", NoneId))
  THEN IF HasId(st.irrigation_types, idata["irrigation_type_id"])
       THEN Ok(st, idata["irrigation_type_id"])
       ELSE Raise(st, "Irrigation type ID not found")
  ELSE IF TruthyStr(Get(idata, "irrigation_type_name", ""))
  THEN LET hit == NamedIds(st.irrigation_types, idata["irrigation_type_name"])
       IN  IF Cardinality(hit) > 1 THEN Raise(st, "MultipleObjectsReturned")
           ELSE IF hit # {} THEN Ok(st, FirstId(hit))
           ELSE Ok([st EXCEPT !.irrigation_types =
                       Append(@, [name |-> idata["irrigation_type_name"],
                                  description |-> "Auto-created"])],
                   Len(st.irrigation_types) + 1)
  ELSE Ok(st, NoneId)

LowerNameExact(name) == name

\* str.lower() of the type names the model uses
LowerName(name) ==
  IF name \in {"Drip", "DRIP", "drip"} THEN "drip" ELSE name

\* float(x): an int, or a string of digits; anything else raises ValueError
\* or TypeError (the spacing strings of the model are digit strings or words)
FloatOk(x) == x.t = "int" \/ (x.t = "str" /\ IsDigitStr(x.v))
FloatOf(x) == IF x.t = "int" THEN x.v ELSE IntOf(x.v)

PlantsPerAcreAnySign(st, idata, irrigation_type, farm_data) ==
  LET supplied == Get(idata, "plants_per_acre", PyNone) IN
  IF /\ irrigation_type # NoneId
     /\ LowerName(st.irrigation_types[irrigation_type].name) = "drip"
     /\ ~PyTruthy(supplied)
     /\ TruthyDict(farm_data)
     /\ PyTruthy(Get(farm_data, "spacing_a", PyNone))
     /\ PyTruthy(Get(farm_data, "spacing_b", PyNone))
     /\ FloatOk(farm_data["spacing_a"]) /\ FloatOk(farm_data["spacing_b"])
  THEN [t |-> "frac",
        v |-> <<SqFtPerAcre, FloatOf(farm_data["spacing_a"]) * FloatOf(farm_data["spacing_b"])>>]
  ELSE supplied

\* lines 499-514: the value is a fraction [num, den], or the supplied value
PlantsPerAcre(st, idata, irrigation_type, farm_data) ==
  LET supplied == Get(idata, "plants_per_acre", PyNone) IN
  IF /\ irrigation_type # NoneId
     /\ LowerName(st.irrigation_types[irrigation_type].name) = "drip"
     /\ ~PyTruthy(supplied)
     /\ TruthyDict(farm_data)
     /\ PyTruthy(Get(farm_data, "spacing_a", PyNone))
     /\ PyTruthy(Get(farm_data, "spacing_b", PyNone))
     /\ FloatOk(farm_data["spacing_a"]) /\ FloatOk(farm_data["spacing_b"])
     /\ FloatOf(farm_data["spacing_a"]) > 0 /\ FloatOf(farm_data["spacing_b"]) > 0
  THEN [t |-> "frac",
        v |-> <<SqFtPerAcre, FloatOf(farm_data["spacing_a"]) * FloatOf(farm_data["spacing_b"])>>]
  ELSE supplied

IrrigationLocationNoPlot(st, idata, plot) ==
  IF TruthyGeo(Get(idata, "location", NoneDict))
  THEN convert_geojson_to_geometry(st, idata["location"])
  ELSE Ok(st, OriginPoint)

\* lines 516-528: explicit geometry, else the plot's location, else (0,0)
IrrigationLocation(st, idata, plot) ==
  IF TruthyGeo(Get(idata, "location", NoneDict))
  THEN convert_geojson_to_geometry(st, idata["location"])
  ELSE IF plot # NoneId /\ st.plots[plot].location # ""
  THEN Ok(st, st.plots[plot].location)
  ELSE Ok(st, OriginPoint)

IrrigationAfterLocation(it, loc, idata, farm, farm_data) ==
  IF ~loc.ok THEN loc
  ELSE Ok([it.store EXCEPT !.irrigations =
              Append(@, [farm |-> farm, irrigation_type |-> it.val,
                         location |-> loc.val,
                         plants_per_acre |->
                           PlantsPerAcre(it.store, idata, it.val, farm_data)])],
          Len(it.store.irrigations) + 1)

IrrigationAfterType(it, idata, farm, farm_data) ==
  IF ~it.ok THEN it
  ELSE IrrigationAfterLocation(it, IrrigationLocation(it.store, idata, it.store.farms[farm].plot),
                               idata, farm, farm_data)

create_farm_irrigation(st, idata, farm, fo, farm_data) ==
  IF ~TruthyDict(idata) THEN Ok(st, NoneId)
  ELSE IrrigationAfterType(ResolveIrrigationType(st, idata), idata, farm, farm_data)

----------------------------------------------------------------------------
(* register_complete_farmer *)

\* truthiness of a farm field, by the type the model gives the field
FarmFieldTruthy(k, d) ==
  IF k \notin DOMAIN d THEN FALSE
  ELSE IF k \in {"address", "soil_type_name", "crop_type_name"} THEN TruthyStr(d[k])
  ELSE IF k \in {"area_size", "plantation_type_id", "planting_method_id"} THEN TruthyId(d[k])
  ELSE PyTruthy(d[k])

MergeFieldByKey(fd, top, k) ==
  IF k \notin DOMAIN fd /\ FarmFieldTruthy(k, top) THEN (k :> top[k]) @@ fd ELSE fd

\* lines 64-75 and 100-103: one "if not farm_data.get(k) and top.get(k)"
MergeField(fd, top, k) ==
  IF ~FarmFieldTruthy(k, fd) /\ FarmFieldTruthy(k, top) THEN (k :> top[k]) @@ fd ELSE fd

MergeRefByTruthiness(fd, top, k) ==
  LET kid == IF k = "plantation_type" THEN "plantation_type_id" ELSE "planting_method_id" IN
  IF FarmFieldTruthy(kid, fd) \/ FarmFieldTruthy(k, fd) THEN fd
  ELSE IF FarmFieldTruthy(kid, top) THEN (kid :> top[kid]) @@ fd
  ELSE IF FarmFieldTruthy(k, top)
  THEN IF top[k].t = "str" /\ IsDigitStr(top[k].v)
       THEN (kid :> IntOf(top[k].v)) @@ fd
       ELSE (k :> top[k]) @@ fd
  ELSE fd

\* lines 78-87 and 90-99: plantation_type / planting_method, by key presence
MergeRef(fd, top, k) ==
  LET kid == IF k = "plantation_type" THEN "plantation_type_id" ELSE "planting_method_id" IN
  IF kid \in DOMAIN fd \/ k \in DOMAIN fd THEN fd
  ELSE IF FarmFieldTruthy(kid, top) THEN (kid :> top[kid]) @@ fd
  ELSE IF FarmFieldTruthy(k, top)
  THEN IF top[k].t = "str" /\ IsDigitStr(top[k].v)
       THEN (kid :> IntOf(top[k].v)) @@ fd
       ELSE (k :> top[k]) @@ fd
  ELSE fd

MergeFarmData(group_farm, top) ==
  LET f1 == MergeField(group_farm, top, "plantation_date")
      f2 == MergeField(f1, top, "address")
      f3 == MergeField(f2, top, "area_size")
      f4 == MergeField(f3, top, "soil_type_name")
      f5 == MergeField(f4, top, "crop_type_name")
      f6 == MergeRef(f5, top, "plantation_type")
      f7 == MergeRef(f6, top, "planting_method")
      f8 == MergeField(f7, top, "spacing_a")
  IN  MergeField(f8, top, "spacing_b")

PlotsDataNoWrap(data) == Get(data, "plots", <<>>)

\* lines 40-48: the plots list, or the legacy single group
PlotsData(data) ==
  IF "plot" \in DOMAIN data /\ Get(data, "plots", <<>>) = <<>>
  THEN << [plot |-> Get(data, "plot", NoneDict),
           farm |-> Get(data, "farm", NoneDict),
           irrigation |-> Get(data, "irrigation", NoneDict)] >>
  ELSE Get(data, "plots", <<>>)

Event(e, g, target) == [ev |-> e, g |-> g, target |-> target]

RECURSIVE SyncEvents(_, _, _)
SyncEvents(invoked, g, i) ==
  IF i > Len(invoked) THEN <<>>
  ELSE <<Event("sync", g, invoked[i])>> \o SyncEvents(invoked, g, i + 1)

Fail(acc, r) == [acc EXCEPT !.ok = FALSE, !.err = r.err, !.store = r.store]

Traced(acc, r, e, g) ==
  IF r.ok /\ r.val # NoneId THEN [acc EXCEPT !.trace = Append(@, Event(e, g, ""))] ELSE acc

GroupSyncedSkipsEmpty(acc, g, p, f, i, rep) ==
  [ok |-> ~rep.raised,
   err |-> IF rep.raised THEN "sync target raised" ELSE "",
   store |-> i.store,
   created_entities |->
     IF p.val = NoneId THEN acc.created_entities
     ELSE Append(acc.created_entities, [plot |-> p.val, farm |-> f.val, irrigation |-> i.val]),
   trace |-> acc.trace \o SyncEvents(rep.invoked, g, 1),
   reports |-> IF p.val # NoneId THEN Append(acc.reports, rep) ELSE acc.reports]

\* lines 114-118: the entry of the group, then the sync of its plot
GroupSynced(acc, g, p, f, i, rep) ==
  [ok |-> ~rep.raised,
   err |-> IF rep.raised THEN "sync target raised" ELSE "",
   store |-> i.store,
   created_entities |->
     Append(acc.created_entities, [plot |-> p.val, farm |-> f.val, irrigation |-> i.val]),
   trace |-> acc.trace \o SyncEvents(rep.invoked, g, 1),
   reports |-> IF p.val # NoneId THEN Append(acc.reports, rep) ELSE acc.reports]

GroupAfterIrrigation(acc, g, p, f, i, outcome) ==
  IF ~i.ok THEN Fail(acc, i)
  ELSE GroupSynced(Traced(acc, i, "irrigation", g), g, p, f, i,
                   IF p.val # NoneId
                   THEN sync_plot_to_fastapi_services(p.val, outcome)
                   ELSE EmptyReport)

\* lines 109-113
GroupAfterFarm(acc, g, entity_data, fo, outcome, p, farm_data, f) ==
  IF ~f.ok THEN Fail(acc, f)
  ELSE GroupAfterIrrigation(
         Traced(acc, f, "farm", g), g, p, f,
         IF TruthyDict(Get(entity_data, "irrigation", NoneDict)) /\ f.val # NoneId
         THEN create_farm_irrigation(f.store, entity_data["irrigation"], f.val, fo, farm_data)
         ELSE Ok(f.store, NoneId),
         outcome)

\* lines 57-107
GroupWithFarmData(acc, g, entity_data, farmer, fo, outcome, p, farm_data) ==
  GroupAfterFarm(acc, g, entity_data, fo, outcome, p, farm_data,
                 IF TruthyDict(farm_data)
                 THEN create_farm(p.store, farm_data, farmer, fo, p.val)
                 ELSE Ok(p.store, NoneId))

\* Plot.save() of farms/models.py: saving a plot dispatches it to the sync
\* targets unless the instance carries _skip_fastapi_sync
PlotSaveSyncs(row) == ~row.skip_fastapi_sync

\* line 267, plot.save(): the creation-time dispatches, if any
PlotSaved(acc, p, g) ==
  IF p.val # NoneId /\ PlotSaveSyncs(p.store.plots[p.val])
  THEN [acc EXCEPT !.trace = @ \o SyncEvents(sync_services, g, 1)]
  ELSE acc

GroupAfterPlot(acc, g, data, entity_data, farmer, fo, outcome, p) ==
  IF ~p.ok THEN Fail(acc, p)
  ELSE GroupWithFarmData(
         PlotSaved(Traced(acc, p, "plot", g), p, g), g, entity_data, farmer, fo, outcome, p,
         IF TruthyDict(Get(entity_data, "farm", NoneDict)) /\ p.val # NoneId
         THEN MergeFarmData(entity_data["farm"], Get(data, "farm", NoneDict))
         ELSE NoneDict)

\* lines 50-118: one iteration of the loop over the plot groups
Group(acc, g, data, entity_data, farmer, fo, outcome) ==
  GroupAfterPlot(acc, g, data, entity_data, farmer, fo, outcome,
                 IF TruthyDict(Get(entity_data, "plot", NoneDict))
                 THEN create_plot(acc.store, entity_data["plot"], farmer, fo)
                 ELSE Ok(acc.store, NoneId))

RECURSIVE Groups(_, _, _, _, _, _, _)
Groups(acc, g, data, plots_data, farmer, fo, outcome) ==
  IF ~acc.ok \/ g > Len(plots_data) THEN acc
  ELSE Groups(Group(acc, g, data, plots_data[g], farmer, fo, outcome),
              g + 1, data, plots_data, farmer, fo, outcome)

\* the exception class of a fault, by the statement that raises it: the lookups
\* get() / get_or_create() raise MultipleObjectsReturned, a method call on a
\* value of the wrong type AttributeError, every "raise serializers.
\* ValidationError" a ValidationError
ExceptionClass(err) ==
  CASE err = "MultipleObjectsReturned" -> "MultipleObjectsReturned"
    [] err = "'int' object has no attribute 'strip'" -> "AttributeError"
    [] err = "sync target raised" -> "Exception"
    [] OTHER -> "ValidationError"

OuterExceptValidationOnly(cls) == cls

\* lines 127-129: except Exception -> raise serializers.ValidationError
OuterExcept(cls) == "ValidationError"

AtomicNoRollback(snapshot, acc) == acc.store

\* line 22, @transaction.atomic: the writes of a call that raises are undone
Atomic(snapshot, acc) == IF acc.ok THEN acc.store ELSE snapshot

Outcome(st, f, acc) ==
  [success |-> acc.ok,
   err |-> acc.err,
   raised |-> IF acc.ok THEN "" ELSE OuterExcept(ExceptionClass(acc.err)),
   farmer |-> IF acc.ok THEN f.val ELSE NoneId,
   created_entities |-> IF acc.ok THEN acc.created_entities ELSE <<>>,
   store |-> Atomic(st, acc),
   trace |-> Append(acc.trace, Event(IF acc.ok THEN "commit" ELSE "rollback", 0, "")),
   reports |-> acc.reports]

AfterFarmer(st, data, fo, outcome, f) ==
  Outcome(st, f,
          Groups([ok |-> f.ok, err |-> f.err, store |-> f.store,
                  created_entities |-> <<>>,
                  trace |-> IF f.ok THEN <<Event("farmer", 0, "")>> ELSE <<>>,
                  reports |-> <<>>],
                 1, data, PlotsData(data), f.val, fo, outcome))

\* lines 23-129; what the call returns (or raises) and the store it leaves
register_complete_farmer(st, data, fo, outcome) ==
  AfterFarmer(st, data, fo, outcome, create_farmer(st, Get(data, "farmer", NoneDict), fo))

----------------------------------------------------------------------------
(* Requests *)

FreshNames == <<"u1", "u2", "u3", "u4", "u5">>
FreshMails == <<"u1@x", "u2@x", "u3@x", "u4@x", "u5@x">>
Gats == <<"g1", "g2", "g3", "g4", "g5">>

FarmerData(u, e, phone) ==
  [username |-> u, email |-> e, password |-> "pw", first_name |-> "F",
   last_name |-> "L", phone_number |-> phone]

PlotData(gat, village) ==
  [gat_number |-> gat, village |-> village, district |-> "D", state |-> "S"]

PointGeo == [kind |-> "dict", keys |-> {"type", "coordinates"}, geos |-> "POINT(1 2)"]
NoCoordsGeo == [kind |-> "dict", keys |-> {"type"}, geos |-> ""]

FarmOk ==
  [address |-> "addr", area_size |-> 5, soil_type_name |-> "Loam",
   crop_type_name |-> "Wheat", spacing_a |-> PyInt(10), spacing_b |-> PyInt(10)]

IrrOk == [irrigation_type_name |-> "Drip"]

AllTrue == [i \in 1..5 |-> "true"]
Target3Raises == [i \in 1..5 |-> IF i = 3 THEN "raise" ELSE "true"]
AllFalse == [i \in 1..5 |-> "false"]
Mixed == <<"false", "true", "raise", "raise", "true">>

\* The last group of a request: what it asks for and where it can fault
GroupKinds ==
  {"none", "full", "dup_g1", "dup_g1_blank", "g1_number_7", "plot_only", "no_plot",
   "plot_fault", "geo_fault", "farm_fault", "irrigation_fault"}

LastGroup(kind, k, village) ==
  CASE kind = "full" ->
         [plot |-> PlotData(Gats[k + 1], village), farm |-> FarmOk, irrigation |-> IrrOk]
    [] kind = "dup_g1" ->
         [plot |-> PlotData(Gats[1], village), farm |-> FarmOk]
    [] kind = "dup_g1_blank" ->
         [plot |-> ("plot_number" :> "") @@ PlotData(Gats[1], village)]
    [] kind = "g1_number_7" ->
         [plot |-> ("plot_number" :> "7") @@ PlotData(Gats[1], village), farm |-> FarmOk]
    [] kind = "plot_only" ->
         [plot |-> ("location" :> PointGeo) @@ PlotData(Gats[k + 1], village),
          irrigation |-> IrrOk]
    [] kind = "no_plot" ->
         [farm |-> FarmOk, irrigation |-> IrrOk]
    [] kind = "plot_fault" ->
         [plot |-> [gat_number |-> Gats[k + 1], village |-> "", district |-> "D", state |-> "S"],
          farm |-> FarmOk]
    [] kind = "geo_fault" ->
         [plot |-> ("location" :> NoCoordsGeo) @@ PlotData(Gats[k + 1], village)]
    [] kind = "farm_fault" ->
         [plot |-> PlotData(Gats[k + 1], village),
          farm |-> [area_size |-> 5, crop_type_name |-> "Wheat"],
          irrigation |-> IrrOk]
    [] kind = "irrigation_fault" ->
         [plot |-> PlotData(Gats[k + 1], village), farm |-> FarmOk,
          irrigation |-> [irrigation_type_id |-> 99]]

\* k well-formed groups on plots g1..gk, then the last group
GroupList(k, kind, village) ==
  [j \in 1..k |-> [plot |-> PlotData(Gats[j], village), farm |-> FarmOk, irrigation |-> IrrOk]]
  \o (IF kind = "none" THEN <<>> ELSE <<LastGroup(kind, k, village)>>)

Request(data, fo, outcome, outcome2) ==
  [data |-> data, fo |-> fo, outcome |-> outcome, outcome2 |-> outcome2]

NoRequest == [data |-> NoneDict, fo |-> NoneId, outcome |-> AllTrue, outcome2 |-> AllTrue]
NoResult == [kind |-> "none"]

\* One call of register_complete_farmer.  res.twin is the outcome of the same
\* call on the same store when the sync targets answer outcome2 instead.
Twin(two) == [x \in {"success", "err", "farmer", "created_entities", "store"} |-> two[x]]

Called(r, out, two) ==
  /\ store' = out.store
  /\ req' = r
  /\ res' = [kind |-> "register", before |-> store, out |-> out, twin |-> Twin(two)]
  /\ ncalls' = ncalls + 1

Call(r) ==
  Called(r, register_complete_farmer(store, r.data, r.fo, r.outcome),
            register_complete_farmer(store, r.data, r.fo, r.outcome2))

Init ==
  /\ store = InitStore
  /\ req = NoRequest
  /\ res = NoResult
  /\ ncalls = 0

----------------------------------------------------------------------------
(* Spec: registrations of plot groups, with a fault at every step *)

FarmerKinds == {"fresh", "taken", "no_industry", "int_phone"}

FarmerOfKind(fk) ==
  IF fk = "taken" THEN FarmerData("u1", "u1@x", NoneSeq)
  ELSE IF fk = "int_phone"
  THEN FarmerData(FreshNames[ncalls + 1], FreshMails[ncalls + 1], IntPhone)
  ELSE FarmerData(FreshNames[ncalls + 1], FreshMails[ncalls + 1], NoneSeq)

RegisterPlots ==
  \E k \in 0..(MaxGroups - 1), kind \in GroupKinds, village \in {"X", "Y"},
     fk \in FarmerKinds, outcome \in {AllTrue, Mixed} :
    /\ ncalls < MaxCalls
    /\ fk # "fresh" => (kind = "full" /\ village = "X")
    /\ outcome = Mixed => (kind \in {"full", "farm_fault"} /\ fk = "fresh")
    /\ Call(Request([farmer |-> FarmerOfKind(fk), plots |-> GroupList(k, kind, village)],
                    IF fk = "no_industry" THEN 3 ELSE 1, outcome, outcome))

LegacyData(kind, village, farmer) ==
  ("farmer" :> farmer) @@ LastGroup(kind, 0, village)

RegisterLegacy ==
  \E kind \in GroupKinds, village \in {"X", "Y"} :
    /\ ncalls < MaxCalls
    /\ kind # "none"
    /\ Call(Request(LegacyData(kind, village, FarmerOfKind("fresh")), 1, AllTrue, AllTrue))

Next == RegisterPlots \/ RegisterLegacy

Spec == Init /\ [][Next]_vars

----------------------------------------------------------------------------
(* Claims checked under Spec *)

Registered == res.kind = "register"

CallTables == {"users", "plots", "farms", "irrigations"}

NothingPersisted == \A t \in CallTables : store[t] = res.before[t]

NewRows(t) == (Len(res.before[t]) + 1)..Len(store[t])

PlotKey(pd) ==
  <<pd["gat_number"], IF "plot_number" \in DOMAIN pd THEN pd["plot_number"] ELSE "",
    pd["village"], pd["district"]>>

RowKey(row) == <<row.gat_number, row.plot_number, row.village, row.district>>

Asked(g, k) == k \in DOMAIN g /\ DOMAIN g[k] # {}

\* the entities of one group exist, linked to each other and to the farmer
GroupPersisted(g, farmer) ==
  Asked(g, "plot") =>
    \E p \in NewRows("plots") :
      /\ RowKey(store.plots[p]) = PlotKey(g.plot)
      /\ store.plots[p].farmer = farmer
      /\ Asked(g, "farm") =>
           \E f \in NewRows("farms") :
             /\ store.farms[f].plot = p
             /\ store.farms[f].farm_owner = farmer
             /\ Asked(g, "irrigation") =>
                  \E i \in NewRows("irrigations") : store.irrigations[i].farm = f

AllPersisted ==
  \E farmer \in NewRows("users") :
    /\ store.users[farmer].username = req.data.farmer.username
    /\ \A j \in 1..Len(PlotsData(req.data)) : GroupPersisted(PlotsData(req.data)[j], farmer)

\* C1: a register call is all-or-nothing: after a successful call the farmer
\* and every plot, farm and irrigation the request asked for exist; after a
\* failed call no Farmer, Plot, Farm or FarmIrrigation row of the call exists,
\* whichever step of whichever group raised.
C1_AllOrNothing ==
  Registered => IF res.out.success THEN AllPersisted ELSE NothingPersisted

\* a call that failed at the farm step of its second group, after the plots
\* of both groups had been written
C1_Witness ==
  /\ Registered
  /\ ~res.out.success
  /\ res.out.err = "Farm address is required"
  /\ \E i \in 1..Len(res.out.trace) : res.out.trace[i].ev = "plot" /\ res.out.trace[i].g = 2
  /\ NothingPersisted

\* C2: a sync target is invoked for a plot only after the transaction of the
\* register call that created the plot has committed.
C2_SyncOnlyAfterCommit ==
  Registered =>
    \A i \in 1..Len(res.out.trace) :
      res.out.trace[i].ev = "sync" =>
        \E j \in 1..(i - 1) : res.out.trace[j].ev = "commit"

PlotGroups == {j \in 1..Len(PlotsData(req.data)) : Asked(PlotsData(req.data)[j], "plot")}

HasKey(pd) == \A i \in 1..Len(RequiredPlotFields) : Get(pd, RequiredPlotFields[i], "") # ""

\* group j asks for a plot whose key an existing plot or an earlier group has
DuplicateGroup(j) ==
  /\ j \in PlotGroups
  /\ HasKey(PlotsData(req.data)[j].plot)
  /\ \/ \E p \in 1..Len(res.before.plots) :
          RowKey(res.before.plots[p]) = PlotKey(PlotsData(req.data)[j].plot)
     \/ \E h \in PlotGroups :
          /\ h < j
          /\ HasKey(PlotsData(req.data)[h].plot)
          /\ PlotKey(PlotsData(req.data)[h].plot) = PlotKey(PlotsData(req.data)[j].plot)

\* C5: a register call that asks for a plot whose (gat_number, plot_number,
\* village, district), an absent plot_number counting as "", is the key of an
\* existing plot or of an earlier group of the same request fails and writes
\* nothing; the duplicate-plot fault is raised for such a plot only.
C5_DuplicatePlotFails ==
  Registered =>
    /\ (\E j \in PlotGroups : DuplicateGroup(j)) => (~res.out.success /\ NothingPersisted)
    /\ res.out.err = "Plot already exists" => \E j \in PlotGroups : DuplicateGroup(j)
    /\ \A p, q \in 1..Len(store.plots) :
         RowKey(store.plots[p]) = RowKey(store.plots[q]) => p = q

\* the second group repeats the key of the first with an explicit empty
\* plot_number, after the farmer and the first group had been written
C5_Witness ==
  /\ Registered
  /\ res.out.err = "Plot already exists"
  /\ Len(PlotsData(req.data)) = 2
  /\ "plot_number" \in DOMAIN PlotsData(req.data)[2].plot
  /\ \E i \in 1..Len(res.out.trace) : res.out.trace[i].ev = "farm" /\ res.out.trace[i].g = 1
  /\ NothingPersisted

----------------------------------------------------------------------------
(* SpecSync: _sync_plot_to_fastapi_services on every combination of outcomes *)

InitSync ==
  /\ store = InitStore
  /\ req \in {Request(NoneDict, NoneId, o, o) : o \in [1..Len(sync_services) -> SyncOutcomes]}
  /\ res = NoResult
  /\ ncalls = 0

SyncPlot ==
  /\ res.kind = "none"
  /\ res' = [kind |-> "sync", report |-> sync_plot_to_fastapi_services(1, req.outcome)]
  /\ UNCHANGED <<store, req, ncalls>>

SpecSync == InitSync /\ [][SyncPlot]_vars

FailedNames(report) == [i \in 1..Len(report.failed) |-> report.failed[i].name]

Occurrences(seq, x) == Cardinality({i \in 1..Len(seq) : seq[i] = x})

\* C3: for every combination of per-target outcomes sync_plot invokes the
\* five targets in the fixed order, does not raise, and reports each target
\* exactly once: under 'successful' iff its call returned a truthy value,
\* under 'failed' otherwise.
C3_SyncReport ==
  res.kind = "sync" =>
    /\ res.report.invoked = <<"events.py", "soil.py/main.py", "Admin.py", "ET.py", "field.py">>
    /\ ~res.report.raised
    /\ \A i \in 1..5 :
         LET name == res.report.invoked[i]
             ok == Occurrences(res.report.successful, name)
             ko == Occurrences(FailedNames(res.report), name)
         IN  IF req.outcome[i] = "true" THEN ok = 1 /\ ko = 0 ELSE ok = 0 /\ ko = 1

\* target 3 raises and the other four succeed: 4 successes, 1 named failure
C3_Witness ==
  /\ res.kind = "sync"
  /\ req.outcome = <<"true", "true", "raise", "true", "true">>
  /\ Len(res.report.successful) = 4
  /\ FailedNames(res.report) = <<"Admin.py">>

----------------------------------------------------------------------------
(* SpecTwin: the same call under two behaviours of the sync targets *)

OutcomeVectors == {AllTrue, Target3Raises, AllFalse, Mixed}

RegisterTwice ==
  \E k \in 0..(MaxGroups - 1), kind \in {"full", "no_plot", "farm_fault"},
     outcome \in OutcomeVectors, outcome2 \in OutcomeVectors :
    /\ ncalls < MaxCalls
    /\ outcome # outcome2
    /\ Call(Request([farmer |-> FarmerOfKind("fresh"), plots |-> GroupList(k, kind, "X")],
                    1, outcome, outcome2))

SpecTwin == Init /\ [][RegisterTwice]_vars

\* C4: the result of a register call (success, farmer, created_entities) and
\* the entities it persists are the same whatever the sync targets return or
\* raise.
C4_SyncIndependent ==
  Registered =>
    /\ res.twin.success = res.out.success
    /\ res.twin.farmer = res.out.farmer
    /\ res.twin.created_entities = res.out.created_entities
    /\ res.twin.err = res.out.err
    /\ res.twin.store = store

\* two plots registered while every target fails, against all targets
\* succeeding
C4_Witness ==
  /\ Registered
  /\ req.outcome = AllFalse
  /\ req.outcome2 = AllTrue
  /\ res.out.success
  /\ Len(store.plots) = Len(res.before.plots) + 2
  /\ Len(res.out.reports) = 2
  /\ Len(res.out.reports[1].failed) = 5

----------------------------------------------------------------------------
(* SpecFarmer: registrations that differ in the farmer and the operator *)

Chars9876543210 == <<"9", "8", "7", "6", "5", "4", "3", "2", "1", "0">>
CharsPlus91Spaced ==
  <<"+", "9", "1", " ", "9", "8", "7", "6", "5", " ", "4", "3", "2", "1", "0">>

FarmerPhones ==
  {NoneSeq, Chars9876543210, CharsPlus91Spaced, <<"9", "1">> \o Rep("7", 10)}

RegisterFarmer ==
  \E u \in {"u1", "u2"}, e \in {"u1@x", "u2@x"}, phone \in FarmerPhones, fo \in 0..3 :
    /\ ncalls < MaxCalls
    /\ fo # 1 => phone = NoneSeq
    /\ Call(Request([farmer |-> FarmerData(u, e, phone)], fo, AllTrue, AllTrue))

SpecFarmer == Init /\ [][RegisterFarmer]_vars

\* the ten digits a phone input stands for, when it stands for ten
DigitsOf(raw) == SelectSeq(raw, LAMBDA c : c \in {"0", "1", "2", "3", "4", "5", "6", "7", "8", "9"})

Normalized(raw) ==
  IF Len(DigitsOf(raw)) = 12 /\ SubSeq(DigitsOf(raw), 1, 2) = <<"9", "1">>
  THEN [i \in 1..10 |-> DigitsOf(raw)[i + 2]]
  ELSE DigitsOf(raw)

HasPhone(raw) == raw # NoneSeq /\ \E i \in 1..Len(raw) : raw[i] # " "

IdentityTaken ==
  \E i \in 1..Len(res.before.users) :
    \/ res.before.users[i].username = req.data.farmer.username
    \/ res.before.users[i].email = req.data.farmer.email
    \/ /\ HasPhone(req.data.farmer.phone_number)
       /\ res.before.users[i].phone_number = Normalized(req.data.farmer.phone_number)

\* C6: no two Farmers share a username, an email or a (normalized) phone
\* number, and a register call whose username, email or normalized phone
\* already exists fails and creates nothing.
C6_UniqueFarmers ==
  /\ \A i, j \in Farmers(store) :
       i # j =>
         /\ store.users[i].username # store.users[j].username
         /\ store.users[i].email # store.users[j].email
         /\ store.users[i].phone_number # NoneSeq =>
              store.users[i].phone_number # store.users[j].phone_number
  /\ (Registered /\ IdentityTaken) => (~res.out.success /\ store = res.before)

\* '+91 98765 43210' is refused because a farmer holds '9876543210'
C6_Witness ==
  /\ Registered
  /\ req.data.farmer.phone_number = CharsPlus91Spaced
  /\ res.out.err = "User with phone number already exists"
  /\ \E i \in Farmers(store) : store.users[i].phone_number = Chars9876543210
  /\ store = res.before

\* C8 as stated: every Farmer created by register carries the industry of the
\* operator of the creating call, so no Farmer created through registration
\* has a null industry.
C8_NoNullIndustry ==
  \A i \in Farmers(store) : store.users[i].industry # NoneId

\* C8, amended: a Farmer created by register has created_by equal to the
\* operator of the call and the industry of that operator (both null when the
\* call has no operator); a call by an operator without an industry fails and
\* persists nothing, so only a Farmer registered without an operator has a
\* null industry.
C8_CreatorAndIndustry ==
  /\ \A i \in Farmers(store) :
       IF store.users[i].created_by = NoneId
       THEN store.users[i].industry = NoneId
       ELSE /\ store.users[i].industry # NoneId
            /\ store.users[i].industry = store.users[store.users[i].created_by].industry
  /\ (Registered /\ res.out.success) =>
       /\ Len(store.users) = Len(res.before.users) + 1
       /\ store.users[Len(store.users)].created_by = req.fo
  /\ (Registered /\ req.fo # NoneId /\ res.before.users[req.fo].industry = NoneId) =>
       (~res.out.success /\ store = res.before)

\* the operator without an industry is refused after a farmer of industry 2
\* was registered
C8_Witness ==
  /\ Registered
  /\ req.fo = 3
  /\ res.out.err = "Field officer must be assigned to an industry"
  /\ \E i \in Farmers(store) : store.users[i].created_by = 2 /\ store.users[i].industry = 2
  /\ store = res.before

----------------------------------------------------------------------------
(* SpecPhone: _create_farmer on a family of phone inputs *)

WithMidSpace(digits) ==
  IF Len(digits) > 5
  THEN SubSeq(digits, 1, 5) \o <<" ">> \o SubSeq(digits, 6, Len(digits))
  ELSE digits

PhonePrefixes == {<<>>, <<"+", "9", "1", " ">>, <<"9", "1">>, <<" ">>, <<"0">>, <<"+">>, <<"a">>}

PhoneInputs ==
  {NoneSeq, Chars9876543210, CharsPlus91Spaced, SubSeq(Chars9876543210, 1, 9)}
  \cup {pre \o body \o post :
          pre \in PhonePrefixes,
          body \in UNION {{Rep("7", n), WithMidSpace(Rep("7", n))} : n \in 0..MaxDigits},
          post \in {<<>>, <<" ">>}}

\* the store before the call: no farmer, or one farmer who holds 7777777777
StoreWithFarmer ==
  register_complete_farmer(InitStore, [farmer |-> FarmerData("u0", "u0@x", Rep("7", 10))],
                           1, AllTrue).store

InitPhone ==
  /\ store \in {InitStore, StoreWithFarmer}
  /\ req \in {Request([farmer |-> FarmerData("u1", "u1@x", p)], 1, AllTrue, AllTrue) :
                p \in PhoneInputs}
  /\ res = NoResult
  /\ ncalls = 0

ApplyRegister ==
  /\ res.kind = "none"
  /\ Call(req)

SpecPhone == InitPhone /\ [][ApplyRegister]_vars

NewFarmerPhone == store.users[Len(store.users)].phone_number

\* C7: the non-digits of a phone input are removed; a leading 91 is dropped
\* when the digits are exactly 12; the call is refused for its phone format
\* iff the result is not exactly 10 digits; an absent, empty or blank phone
\* is stored as null.  Every stored phone is null or exactly 10 digits.
C7_PhoneNormalization ==
  /\ \A i \in Farmers(store) :
       \/ store.users[i].phone_number = NoneSeq
       \/ /\ Len(store.users[i].phone_number) = 10
          /\ \A k \in 1..10 : store.users[i].phone_number[k] \in Digits
  /\ Registered =>
       IF ~HasPhone(req.data.farmer.phone_number)
       THEN res.out.success /\ NewFarmerPhone = NoneSeq
       ELSE IF Len(Normalized(req.data.farmer.phone_number)) # 10
       THEN ~res.out.success /\ res.out.err = "Phone number must be 10 digits"
       ELSE IF \E i \in 1..Len(res.before.users) :
                 res.before.users[i].phone_number = Normalized(req.data.farmer.phone_number)
       THEN ~res.out.success /\ res.out.err = "User with phone number already exists"
       ELSE res.out.success /\ NewFarmerPhone = Normalized(req.data.farmer.phone_number)

\* '+91 98765 43210' is stored as '9876543210'
C7_Witness ==
  /\ Registered
  /\ req.data.farmer.phone_number = CharsPlus91Spaced
  /\ res.out.success
  /\ NewFarmerPhone = Chars9876543210

----------------------------------------------------------------------------
(* SpecCrop: registrations that differ in the crop and its plantation data *)

CropFarm(pt, pm) ==
  (IF pt = <<>> THEN NoneDict ELSE [plantation_type |-> PyStr(pt)])
  @@ (IF pm = <<>> THEN NoneDict ELSE [planting_method |-> PyStr(pm)])
  @@ [address |-> "addr", area_size |-> 5, crop_type_name |-> "Wheat"]

RegisterCrop ==
  \E pt \in {<<>>, <<"a">>, <<"b", "_", "c">>}, pm \in {<<>>, <<"d">>}, fo \in {1, 2} :
    /\ ncalls < MaxCropCalls
    /\ Call(Request([farmer |-> FarmerOfKind("fresh"),
                     plots |-> <<[plot |-> PlotData(Gats[ncalls + 1], "X"),
                                  farm |-> CropFarm(pt, pm)]>>],
                    fo, AllTrue, AllTrue))

SpecCrop == Init /\ [][RegisterCrop]_vars

Triple(row) == <<row.crop_type, row.plantation_type, row.planting_method>>

ReqFarm == req.data.plots[1].farm

\* the plantation type / planting method the request names, as stored rows
NamedPlantation(row) ==
  IF "plantation_type" \in DOMAIN ReqFarm
  THEN row.plantation_type # NoneId
       /\ store.plantation_types[row.plantation_type].code = ReqFarm.plantation_type.v
  ELSE row.plantation_type = NoneId

NamedMethod(row) ==
  IF "planting_method" \in DOMAIN ReqFarm
  THEN row.planting_method # NoneId
       /\ store.planting_methods[row.planting_method].code = ReqFarm.planting_method.v
  ELSE row.planting_method = NoneId

HasPlantationData == DOMAIN ReqFarm \cap {"plantation_type", "planting_method"} # {}

NewFarmCrop == store.crop_types[store.farms[Len(store.farms)].crop_type]

\* C9: a CropType is identified by (crop name, plantation_type,
\* planting_method): there is at most one CropType per triple, a registration
\* that resolves plantation data links its farm to the CropType of exactly
\* that triple, creating it only if it did not exist, and leaves every other
\* CropType as it was (so Wheat with A and Wheat with B are two entities).
C9_CropTypeIdentity ==
  /\ \A i, j \in 1..Len(store.crop_types) :
       Triple(store.crop_types[i]) = Triple(store.crop_types[j]) => i = j
  /\ (Registered /\ res.out.success /\ HasPlantationData) =>
       /\ NewFarmCrop.crop_type = ReqFarm.crop_type_name
       /\ NamedPlantation(NewFarmCrop)
       /\ NamedMethod(NewFarmCrop)
       /\ SubSeq(store.crop_types, 1, Len(res.before.crop_types)) = res.before.crop_types
       /\ Len(store.crop_types) =
            IF \E i \in 1..Len(res.before.crop_types) :
                 Triple(res.before.crop_types[i]) = Triple(NewFarmCrop)
            THEN Len(res.before.crop_types)
            ELSE Len(res.before.crop_types) + 1

\* Wheat with plantation a, Wheat with plantation b_c, then Wheat with
\* plantation a again: two CropTypes, the third call creating none
C9_Witness ==
  /\ Registered
  /\ res.out.success
  /\ HasPlantationData
  /\ Len(store.crop_types) = 2
  /\ store.crop_types = res.before.crop_types
  /\ store.crop_types[1].plantation_type # store.crop_types[2].plantation_type
  /\ store.crop_types[1].plantation_type # NoneId
  /\ store.crop_types[2].plantation_type # NoneId

\* C10: when a CropType of the requested name exists with null
\* plantation_type and planting_method, a registration of that crop with
\* plantation data updates that entity and creates no second CropType of the
\* name.
C10_LazyBackfill ==
  (/\ Registered
   /\ res.out.success
   /\ HasPlantationData
   /\ \E i \in 1..Len(res.before.crop_types) :
        Triple(res.before.crop_types[i]) = <<ReqFarm.crop_type_name, NoneId, NoneId>>)
  => /\ Len(store.crop_types) = Len(res.before.crop_types)
     /\ \A i \in 1..Len(res.before.crop_types) :
          Triple(res.before.crop_types[i]) = <<ReqFarm.crop_type_name, NoneId, NoneId>>
            => Triple(store.crop_types[i]) = Triple(NewFarmCrop)

----------------------------------------------------------------------------
(* SpecRefs: registrations on a store that already holds reference data.
   PlantationType and PlantingMethod rows are also kept outside registration;
   the rows below respect their unique keys (industry, code) and
   (plantation_type, industry, code). *)

SeedPlantationTypes ==
  << [industry |-> 2, code |-> <<"a">>, name |-> <<"A">>, is_active |-> TRUE],
     [industry |-> 1, code |-> <<"a">>, name |-> <<"A">>, is_active |-> TRUE],
     [industry |-> 1, code |-> <<"b">>, name |-> <<"c">>, is_active |-> TRUE],
     [industry |-> 2, code |-> <<"c">>, name |-> <<"C">>, is_active |-> TRUE] >>

\* two methods of plantation type 3 with the same code, one per industry
SeedPlantingMethods ==
  << [plantation_type |-> 3, industry |-> 2, code |-> <<"d">>, name |-> <<"D">>,
      is_active |-> TRUE],
     [plantation_type |-> 3, industry |-> 1, code |-> <<"d">>, name |-> <<"D">>,
      is_active |-> TRUE] >>

InitRefs ==
  /\ store = [InitStore EXCEPT !.plantation_types = SeedPlantationTypes,
                               !.planting_methods = SeedPlantingMethods]
  /\ req = NoRequest
  /\ res = NoResult
  /\ ncalls = 0

PlantationTexts == {<<>>, <<"a">>, <<"b">>, <<"c">>, <<"d">>, <<"b", "_", "c">>}

\* free-text plantation type and planting method
RegisterByText ==
  \E fo \in {1, 2}, pt \in PlantationTexts, pm \in {<<>>, <<"d">>, <<"D">>} :
    /\ ncalls < MaxRefCalls
    /\ pm = <<"D">> => pt = <<"b">>
    /\ Call(Request([farmer |-> FarmerOfKind("fresh"),
                     plots |-> <<[plot |-> PlotData(Gats[ncalls + 1], "X"),
                                  farm |-> CropFarm(pt, pm)]>>],
                    fo, AllTrue, AllTrue))

RefFarm(ptid, pmid, crop) ==
  (IF ptid = NoneId THEN NoneDict ELSE [plantation_type_id |-> ptid])
  @@ (IF pmid = NoneId THEN NoneDict ELSE [planting_method_id |-> pmid])
  @@ (IF crop = "" THEN NoneDict ELSE [crop_type_name |-> crop])
  @@ [address |-> "addr", area_size |-> 5]

\* plantation type and planting method by id, id 9 being no row
RegisterById ==
  \E ptid \in {NoneId, 2, 9}, pmid \in {NoneId, 1, 9}, crop \in {"", "Wheat"} :
    /\ ncalls < MaxRefCalls
    /\ pmid = 1 => ptid = 2
    /\ Call(Request([farmer |-> FarmerOfKind("fresh"),
                     plots |-> <<[plot |-> PlotData(Gats[ncalls + 1], "X"),
                                  farm |-> RefFarm(ptid, pmid, crop)]>>],
                    1, AllTrue, AllTrue))

\* the references come from the top-level farm block, as digit strings
RegisterByTopLevel ==
  \E ptid \in {<<"2">>, <<"9">>}, crop \in {"", "Wheat"} :
    /\ ncalls < MaxRefCalls
    /\ Call(Request([farmer |-> FarmerOfKind("fresh"),
                     farm |-> [plantation_type |-> PyStr(ptid)],
                     plots |-> <<[plot |-> PlotData(Gats[ncalls + 1], "X"),
                                  farm |-> RefFarm(NoneId, NoneId, crop)]>>],
                    1, AllTrue, AllTrue))

NextRefs == RegisterByText \/ RegisterById \/ RegisterByTopLevel

SpecRefs == InitRefs /\ [][NextRefs]_vars

\* the farm data _create_farm receives for the group of the request
EffectiveFarm == MergeFarmData(ReqFarm, Get(req.data, "farm", NoneDict))

OperatorIndustry == res.before.users[req.fo].industry

\* the call resolved a free-text plantation type
PlantationByText ==
  /\ Registered
  /\ res.out.success
  /\ "crop_type_name" \in DOMAIN EffectiveFarm
  /\ "plantation_type" \in DOMAIN EffectiveFarm
  /\ "plantation_type_id" \notin DOMAIN EffectiveFarm

PlantationText == EffectiveFarm.plantation_type.v

\* the four lookups of the cascade, on the store the call started from
PlantationLevels ==
  LET tbl == res.before.plantation_types
      v == PlantationText
  IN  << {i \in 1..Len(tbl) : tbl[i].code = v /\ tbl[i].industry = OperatorIndustry},
         {i \in 1..Len(tbl) : tbl[i].name = v /\ tbl[i].industry = OperatorIndustry},
         {i \in 1..Len(tbl) : tbl[i].code = v},
         {i \in 1..Len(tbl) : tbl[i].name = v} >>

FirstLevel(levels) == Min({k \in 1..Len(levels) : levels[k] # {}})

\* C11: a free-text plantation type resolves to a hit of the first level of
\* the cascade (code in the operator's industry, name in the operator's
\* industry, code in any industry, name in any industry) that has one, and
\* then no row is created; a PlantationType (operator's industry, code = the
\* text, name = the title-cased text with '_' replaced by ' ') is created
\* iff all four levels miss.
C11_PlantationCascade ==
  PlantationByText =>
    IF \E k \in 1..4 : PlantationLevels[k] # {}
    THEN /\ NewFarmCrop.plantation_type \in PlantationLevels[FirstLevel(PlantationLevels)]
         /\ store.plantation_types = res.before.plantation_types
    ELSE /\ NewFarmCrop.plantation_type = Len(res.before.plantation_types) + 1
         /\ store.plantation_types =
              Append(res.before.plantation_types,
                     [industry |-> OperatorIndustry, code |-> PlantationText,
                      name |-> TitleName(PlantationText), is_active |-> TRUE])

\* operator of industry 2 names code "b", which only industry 1 has: the row
\* of industry 1 is found at the third level and nothing is created
C11_Witness ==
  /\ PlantationByText
  /\ req.fo = 2
  /\ PlantationText = <<"b">>
  /\ PlantationLevels[1] = {} /\ PlantationLevels[2] = {} /\ PlantationLevels[3] = {3}
  /\ NewFarmCrop.plantation_type = 3
  /\ store.plantation_types = res.before.plantation_types

\* the call resolved a free-text planting method under a resolved plantation type
MethodByText ==
  /\ Registered
  /\ res.out.success
  /\ "crop_type_name" \in DOMAIN EffectiveFarm
  /\ "planting_method" \in DOMAIN EffectiveFarm
  /\ "planting_method_id" \notin DOMAIN EffectiveFarm
  /\ NewFarmCrop.plantation_type # NoneId

MethodText == EffectiveFarm.planting_method.v

\* the four lookups the claim describes, on the store the call started from
MethodLevels ==
  LET tbl == res.before.planting_methods
      v == MethodText
      pt == NewFarmCrop.plantation_type
  IN  << {i \in 1..Len(tbl) : /\ tbl[i].code = v
                              /\ tbl[i].plantation_type = pt
                              /\ tbl[i].industry = OperatorIndustry},
         {i \in 1..Len(tbl) : /\ tbl[i].name = v
                              /\ tbl[i].plantation_type = pt
                              /\ tbl[i].industry = OperatorIndustry},
         {i \in 1..Len(tbl) : tbl[i].code = v},
         {i \in 1..Len(tbl) : tbl[i].name = v} >>

\* C12: a free-text planting method resolves to a hit of the first level that
\* has one among: code within (resolved plantation type, operator's
\* industry), name within that scope, code anywhere, name anywhere; it is
\* created under (plantation_type, industry, code) iff all four miss.  So a
\* code match of the operator's industry wins over one of another industry.
C12_MethodScopedToIndustry ==
  MethodByText =>
    IF \E k \in 1..4 : MethodLevels[k] # {}
    THEN /\ NewFarmCrop.planting_method \in MethodLevels[FirstLevel(MethodLevels)]
         /\ store.planting_methods = res.before.planting_methods
    ELSE /\ NewFarmCrop.planting_method = Len(res.before.planting_methods) + 1
         /\ store.planting_methods =
              Append(res.before.planting_methods,
                     [plantation_type |-> NewFarmCrop.plantation_type,
                      industry |-> OperatorIndustry, code |-> MethodText,
                      name |-> TitleName(MethodText), is_active |-> TRUE])

\* a plantation_type_id or planting_method_id of the effective farm data that
\* names no row of the store the call started from
DanglingReference ==
  \/ /\ FarmFieldTruthy("plantation_type_id", EffectiveFarm)
     /\ ~HasId(res.before.plantation_types, EffectiveFarm.plantation_type_id)
  \/ /\ FarmFieldTruthy("planting_method_id", EffectiveFarm)
     /\ ~HasId(res.before.planting_methods, EffectiveFarm.planting_method_id)

\* C13: a register call whose effective farm data carries a
\* plantation_type_id or planting_method_id that is not in the store fails
\* and persists nothing, whatever the other farm fields of the group are.
C13_DanglingIdAborts ==
  (Registered /\ DanglingReference) => (~res.out.success /\ NothingPersisted)

----------------------------------------------------------------------------
(* Claims about the result of a call, checked under Spec *)

FarmerFaults ==
  {"'int' object has no attribute 'strip'", "Farmer data is required", "Farmer field is required", "Username already exists",
   "Email already exists", "Phone number must be 10 digits",
   "User with phone number already exists",
   "Field officer must be assigned to an industry", "Farmer role not found in system"}

PlotFaults ==
  {"Plot field is required", "Plot already exists", "Invalid geometry data",
   "Invalid geometry data: GeoJSON must have 'type' field",
   "Invalid geometry data: GeoJSON must have 'coordinates' field",
   "Invalid geometry data: Invalid geometry data type"}

FarmFaults ==
  {"Farm address is required", "Farm area_size is required", "Soil type ID not found",
   "Crop type ID not found", "Plantation type ID not found",
   "Planting method ID not found", "MultipleObjectsReturned"}

IrrigationFaults == {"Irrigation type ID not found", "MultipleObjectsReturned"}

\* entry j of created_entities against group j of the request
EntryOfGroup(e, g) ==
  /\ e.plot # NoneId <=> Asked(g, "plot")
  /\ e.farm # NoneId <=> (e.plot # NoneId /\ Asked(g, "farm"))
  /\ e.irrigation # NoneId <=> (e.farm # NoneId /\ Asked(g, "irrigation"))
  /\ e.plot # NoneId => RowKey(store.plots[e.plot]) = PlotKey(g.plot)
  /\ e.farm # NoneId => store.farms[e.farm].plot = e.plot
  /\ e.irrigation # NoneId => store.irrigations[e.irrigation].farm = e.farm

\* the fault of a failed call comes from a step that ran on supplied data
FaultOfSuppliedBlock ==
  LET groups == PlotsData(req.data)
      G == 1..Len(groups)
  IN  \/ res.out.err \in FarmerFaults
      \/ /\ res.out.err \in PlotFaults
         /\ \E j \in G : Asked(groups[j], "plot")
      \/ /\ res.out.err \in FarmFaults
         /\ \E j \in G : Asked(groups[j], "plot") /\ Asked(groups[j], "farm")
      \/ /\ res.out.err \in IrrigationFaults
         /\ \E j \in G : /\ Asked(groups[j], "plot")
                         /\ Asked(groups[j], "farm")
                         /\ Asked(groups[j], "irrigation")

\* C14: on success created_entities has one entry per plot group, in input
\* order; in an entry plot is set iff the group supplied plot data, farm iff a
\* plot was created and the group supplied farm data, irrigation iff a farm
\* was created and the group supplied irrigation data; a sub-block that is
\* missing is skipped and is never the cause of a failure.
C14_EntryPerGroup ==
  Registered =>
    IF res.out.success
    THEN /\ Len(res.out.created_entities) = Len(PlotsData(req.data))
         /\ \A j \in 1..Len(PlotsData(req.data)) :
              EntryOfGroup(res.out.created_entities[j], PlotsData(req.data)[j])
    ELSE FaultOfSuppliedBlock

\* a full group followed by a group with farm and irrigation data but no plot:
\* the call succeeds and the second entry is empty
C14_Witness ==
  /\ Registered
  /\ res.out.success
  /\ Len(res.out.created_entities) = 2
  /\ res.out.created_entities[1].irrigation # NoneId
  /\ Asked(PlotsData(req.data)[2], "farm")
  /\ Asked(PlotsData(req.data)[2], "irrigation")
  /\ res.out.created_entities[2] = [plot |-> NoneId, farm |-> NoneId, irrigation |-> NoneId]

----------------------------------------------------------------------------
(* SpecLegacy: each request in the legacy single-group shape, and beside it
   the same request with its top-level keys moved into a one-element plots
   list *)

LegacyBlocks == {"absent", "ok", "fault"}

LegacyPlot(b) ==
  IF b = "absent" THEN NoneDict
  ELSE [plot |-> PlotData(Gats[ncalls + 1], IF b = "ok" THEN "X" ELSE "")]

LegacyFarm(b) ==
  IF b = "absent" THEN NoneDict
  ELSE [farm |-> CASE b = "ok" -> FarmOk
                   [] b = "refs" -> [plantation_type |-> PyStr(<<"2">>),
                                     planting_method |-> PyStr(<<"d">>)] @@ FarmOk
                   [] OTHER -> [area_size |-> 5, crop_type_name |-> "Wheat"]]

LegacyIrrigation(b) ==
  IF b = "absent" THEN NoneDict
  ELSE [irrigation |-> IF b = "ok" THEN IrrOk ELSE [irrigation_type_id |-> 99]]

LegacyShape(p, f, i) ==
  LegacyPlot(p) @@ LegacyFarm(f) @@ LegacyIrrigation(i)
  @@ [farmer |-> FarmerOfKind("fresh")]

\* {'plot': data.get('plot'), 'farm': data.get('farm'), 'irrigation': data.get('irrigation')}
ListShape(data) ==
  [farmer |-> data.farmer,
   plots |-> << [plot |-> Get(data, "plot", NoneDict),
                 farm |-> Get(data, "farm", NoneDict),
                 irrigation |-> Get(data, "irrigation", NoneDict)] >>]

RegisterBothShapes ==
  \E p \in LegacyBlocks, f \in LegacyBlocks \cup {"refs"}, i \in LegacyBlocks :
    /\ ncalls < MaxCalls
    /\ Called(Request(LegacyShape(p, f, i), 1, AllTrue, AllTrue),
              register_complete_farmer(store, LegacyShape(p, f, i), 1, AllTrue),
              register_complete_farmer(store, ListShape(LegacyShape(p, f, i)), 1, AllTrue))

SpecLegacy == Init /\ [][RegisterBothShapes]_vars

SameAsListShape == res.twin = Twin(res.out)

\* C15 as stated: a legacy request and its one-element list form give the
\* same persisted entities, the same created_entities and the same failure,
\* whichever of the three top-level keys are present.
C15_LegacyEquivalent == Registered => SameAsListShape

\* C15, amended: with a top-level plot key the legacy request is processed as
\* its one-element list form; without one no group is processed at all: the
\* farmer alone is created and created_entities is empty, where the list
\* form returns one entry with plot, farm and irrigation null.
C15_LegacyWithPlot ==
  Registered =>
    IF "plot" \in DOMAIN req.data
    THEN SameAsListShape
    ELSE /\ res.out.success
         /\ res.out.created_entities = <<>>
         /\ res.twin.created_entities =
              <<[plot |-> NoneId, farm |-> NoneId, irrigation |-> NoneId]>>
         /\ res.twin.store = res.out.store
         /\ res.twin.farmer = res.out.farmer
         /\ Len(store.users) = Len(res.before.users) + 1
         /\ \A t \in CallTables \ {"users"} : store[t] = res.before[t]

\* a legacy request with plot, farm and irrigation: one full entry, as for
\* its list form
C15_Witness ==
  /\ Registered
  /\ DOMAIN req.data = {"farmer", "plot", "farm", "irrigation"}
  /\ res.out.success
  /\ Len(res.out.created_entities) = 1
  /\ res.out.created_entities[1].irrigation # NoneId
  /\ SameAsListShape

\* C16: register ends either by returning a result with success = true or by
\* raising a ValidationError that carries a message, whatever the class of
\* the fault a step raised; it returns no result for a failed registration.
C16_ValidationErrorOnly ==
  Registered =>
    IF res.out.success
    THEN res.out.raised = "" /\ res.out.farmer # NoneId
    ELSE /\ res.out.raised = "ValidationError"
         /\ res.out.err # ""
         /\ res.out.farmer = NoneId
         /\ res.out.created_entities = <<>>

\* a phone_number that is a number: the AttributeError of the farmer step
\* leaves register as a ValidationError
C16_Witness ==
  /\ Registered
  /\ ~res.out.success
  /\ ExceptionClass(res.out.err) = "AttributeError"
  /\ res.out.raised = "ValidationError"
  /\ NothingPersisted

----------------------------------------------------------------------------
(* users/login_view.py: PasswordResetRequestView and PasswordResetConfirmView.
   Under SpecReset the store holds the accounts, the clock (timezone.now(), in
   minutes), the next token of _generate_reset_token and the tokens issued so
   far.  A token is 32 characters from secrets.choice: every generated token
   is taken to be new.  0 is "no token", <<>> "no timestamp". *)

TokenLifetime == 60
PasswordMinLength == 8

NoTime == <<>>

Response(st, status, body) == [store |-> st, status |-> status, body |-> body]

\* User.objects.filter(email=email).first()
UserByEmail(st, email) == FirstId({i \in 1..Len(st.users) : st.users[i].email = email})

\* lines 264-294: the mail is sent, or send_mail raises and the fault is printed
send_password_reset_email(st, user, reset_token, mail) ==
  IF mail = "sent"
  THEN [st EXCEPT !.outbox = Append(@, [to |-> st.users[user].email, token |-> reset_token])]
  ELSE st

\* lines 238-244: generate the token, save it with the timestamp
SaveResetToken(st, user) ==
  [st EXCEPT !.users[user].password_reset_token = st.next_token,
             !.users[user].password_reset_token_created_at = <<st.now>>,
             !.next_token = @ + 1,
             !.issued = Append(@, [token |-> st.next_token, at |-> st.now, user |-> user])]

\* PasswordResetRequestView.post, lines 215-257
password_reset_request(st, email, mail) ==
  IF email = ""
  THEN Response(st, 400, [detail |-> "Email is required"])
  ELSE IF UserByEmail(st, email) = NoneId
  THEN Response(st, 200,
                [detail |-> "If the email exists, a password reset link has been sent."])
  ELSE IF ~st.users[UserByEmail(st, email)].is_active
  THEN Response(st, 400, [detail |-> "Account is deactivated"])
  ELSE Response(send_password_reset_email(SaveResetToken(st, UserByEmail(st, email)),
                                          UserByEmail(st, email), st.next_token, mail),
                200,
                [detail |-> "If the email exists, a password reset link has been sent.",
                 message |-> "Check your email for password reset instructions."])

\* lines 319-322
UserByToken(st, token) ==
  FirstId({i \in 1..Len(st.users) :
             /\ st.users[i].password_reset_token = token
             /\ st.users[i].password_reset_token_created_at # NoTime})

TokenExpiredNever(st, user) == FALSE

\* lines 330-331: token_age > timedelta(hours=1)
TokenExpired(st, user) ==
  st.now - st.users[user].password_reset_token_created_at[1] > TokenLifetime

\* lines 333-334 and 351-352 without the assignments
ClearResetTokenKept(st, user) == st

\* lines 333-334 and 351-352
ClearResetToken(st, user) ==
  [st EXCEPT !.users[user].password_reset_token = 0,
             !.users[user].password_reset_token_created_at = NoTime]

\* lines 324-359
ConfirmForUser(st, user, new_password) ==
  IF user = NoneId
  THEN Response(st, 400, [detail |-> "Invalid or expired reset token"])
  ELSE IF TokenExpired(st, user)
  THEN Response(ClearResetToken(st, user), 400,
                [detail |-> "Reset token has expired. Please request a new one."])
  ELSE IF ~st.users[user].is_active
  THEN Response(st, 400, [detail |-> "Account is deactivated"])
  ELSE Response([ClearResetToken(st, user) EXCEPT !.users[user].password = new_password],
                200,
                [detail |-> "Password has been reset successfully",
                 message |-> "You can now login with your new password."])

\* PasswordResetConfirmView.post, lines 303-364
password_reset_confirm(st, token, new_password) ==
  IF token = 0 \/ new_password = <<>>
  THEN Response(st, 400, [detail |-> "Token and new password are required"])
  ELSE IF Len(new_password) < PasswordMinLength
  THEN Response(st, 400, [detail |-> "Password must be at least 8 characters long"])
  ELSE ConfirmForUser(st, UserByToken(st, token), new_password)

\* an active account, and a deactivated one that still holds the token it
\* was sent at time 0
ResetUsers ==
  << [email |-> "a@x", is_active |-> TRUE, password |-> Rep("o", 8),
      password_reset_token |-> 0, password_reset_token_created_at |-> NoTime],
     [email |-> "b@x", is_active |-> FALSE, password |-> Rep("o", 8),
      password_reset_token |-> 1, password_reset_token_created_at |-> <<0>>] >>

InitReset ==
  /\ store = [users |-> ResetUsers, now |-> 0, next_token |-> 2,
              issued |-> <<[token |-> 1, at |-> 0, user |-> 2]>>, outbox |-> <<>>]
  /\ req = NoRequest
  /\ res = NoResult
  /\ ncalls = 0

\* res.unknown is the response to the same request on the same store without
\* the account of that email
Responded(kind, r, out, unknown) ==
  /\ store' = out.store
  /\ req' = r
  /\ res' = [kind |-> kind, before |-> store, status |-> out.status, body |-> out.body,
             unknown |-> [status |-> unknown.status, body |-> unknown.body]]
  /\ UNCHANGED ncalls

WithoutEmail(st, email) ==
  [st EXCEPT !.users = [i \in 1..Len(@) |->
                          IF @[i].email = email THEN [@[i] EXCEPT !.email = ""] ELSE @[i]]]

ResetRequest ==
  \E email \in {"", "a@x", "b@x", "z@x"}, mail \in {"sent", "failed"} :
    /\ store.next_token <= MaxTokens + 1
    /\ Responded("reset_request", [email |-> email, mail |-> mail],
                 password_reset_request(store, email, mail),
                 password_reset_request(WithoutEmail(store, email), email, mail))

ResetConfirm ==
  \E token \in 0..(MaxTokens + 1), new_password \in {<<>>, Rep("p", 7), Rep("p", 8)} :
    Responded("reset_confirm", [token |-> token, new_password |-> new_password],
              password_reset_confirm(store, token, new_password),
              password_reset_confirm(store, token, new_password))

\* timezone.now() moves on between requests
Tick ==
  /\ store.now < MaxClock
  /\ store' = [store EXCEPT !.now = @ + ClockStep]
  /\ UNCHANGED <<req, res, ncalls>>

NextReset == ResetRequest \/ ResetConfirm \/ Tick

SpecReset == InitReset /\ [][NextReset]_vars

Confirmed == res.kind = "reset_confirm"

\* the token of the request was issued more than an hour before the request
ExpiredTokenUsed ==
  /\ Confirmed
  /\ \E k \in 1..Len(res.before.issued) :
       /\ res.before.issued[k].token = req.token
       /\ res.before.now - res.before.issued[k].at > TokenLifetime

PasswordsUnchanged ==
  \A i \in 1..Len(store.users) : store.users[i].password = res.before.users[i].password

TokenStored(st, token) ==
  \E i \in 1..Len(st.users) : st.users[i].password_reset_token = token

\* C17 as stated: a confirm request with a token older than 1 hour fails,
\* leaves the password unchanged and clears the stored token.
C17_ExpiredTokenCleared ==
  ExpiredTokenUsed =>
    /\ res.status = 400
    /\ PasswordsUnchanged
    /\ ~TokenStored(store, req.token)

\* C17, amended: a confirm request with a token older than 1 hour fails and
\* leaves every password unchanged, on every attempt; it clears the stored
\* token when it carries a new password of at least 8 characters (a request
\* rejected for its password does not touch the token); a confirm succeeds
\* only with a token issued at most an hour before.
C17_ExpiredTokenUnusable ==
  /\ ExpiredTokenUsed =>
       /\ res.status = 400
       /\ PasswordsUnchanged
       /\ Len(req.new_password) >= PasswordMinLength => ~TokenStored(store, req.token)
  /\ (Confirmed /\ res.status = 200) =>
       \E k \in 1..Len(res.before.issued) :
         /\ res.before.issued[k].token = req.token
         /\ res.before.now - res.before.issued[k].at <= TokenLifetime
         /\ store.users[res.before.issued[k].user].password = req.new_password

\* the account of a@x held a token issued more than an hour before; the
\* confirm request is refused as expired and the token is gone
C17_Witness ==
  /\ ExpiredTokenUsed
  /\ TokenStored(res.before, req.token)
  /\ res.before.users[1].password_reset_token = req.token
  /\ res.body.detail = "Reset token has expired. Please request a new one."
  /\ ~TokenStored(store, req.token)
  /\ PasswordsUnchanged

Requested == res.kind = "reset_request" /\ req.email # ""

\* C18: the response to a password-reset request is the same, status code and
\* body, whether or not the email belongs to an account and whatever the
\* state of that account.
C18_ResponseHidesAccount ==
  Requested => (res.status = res.unknown.status /\ res.body = res.unknown.body)

----------------------------------------------------------------------------
(* Claims about the order of the steps of a call, checked under Spec *)

Trace == res.out.trace

GroupSteps == {i \in 1..Len(Trace) : Trace[i].ev \in {"plot", "farm", "irrigation"}}

Rank(ev) == CASE ev = "plot" -> 1 [] ev = "farm" -> 2 [] OTHER -> 3

\* step j of the trace has the step `ev` of its own group before it
Preceded(j, ev) ==
  \E i \in GroupSteps : i < j /\ Trace[i].ev = ev /\ Trace[i].g = Trace[j].g

\* the rows an entry of created_entities names were written by this call and
\* reference each other and the farmer of the call
EntryLinked(e) ==
  /\ e.plot # NoneId =>
       e.plot \in NewRows("plots") /\ store.plots[e.plot].farmer = res.out.farmer
  /\ e.farm # NoneId =>
       /\ e.farm \in NewRows("farms")
       /\ e.plot # NoneId
       /\ store.farms[e.farm].plot = e.plot
       /\ store.farms[e.farm].farm_owner = res.out.farmer
  /\ e.irrigation # NoneId =>
       /\ e.irrigation \in NewRows("irrigations")
       /\ e.farm # NoneId
       /\ store.irrigations[e.irrigation].farm = e.farm

\* C19: in every execution of register the farmer is created once and before
\* any plot; the groups are processed in input order and within a group the
\* plot is created before the farm and the farm before the irrigation; so
\* every farm references a plot and the farmer created earlier in the same
\* call and every irrigation references the farm of its own group.
C19_CreationOrder ==
  Registered =>
    /\ \A i \in 1..Len(Trace) : Trace[i].ev = "farmer" => i = 1
    /\ (GroupSteps # {} \/ res.out.success) => Trace[1].ev = "farmer"
    /\ \A i, j \in GroupSteps :
         i < j => \/ Trace[i].g < Trace[j].g
                  \/ Trace[i].g = Trace[j].g /\ Rank(Trace[i].ev) < Rank(Trace[j].ev)
    /\ \A j \in GroupSteps :
         /\ Trace[j].ev = "farm" => Preceded(j, "plot")
         /\ Trace[j].ev = "irrigation" => Preceded(j, "farm")
    /\ res.out.success =>
         /\ res.out.farmer \in NewRows("users")
         /\ \A k \in 1..Len(res.out.created_entities) :
              EntryLinked(res.out.created_entities[k])
         /\ \A k, m \in 1..Len(res.out.created_entities) :
              (/\ k # m
               /\ res.out.created_entities[k].irrigation # NoneId)
              => store.irrigations[res.out.created_entities[k].irrigation].farm
                   # res.out.created_entities[m].farm

\* two full groups: farmer, then plot, farm, irrigation of group 1, then
\* plot, farm, irrigation of group 2
C19_Witness ==
  /\ Registered
  /\ res.out.success
  /\ [i \in 1..Len(SelectSeq(Trace, LAMBDA x : x.ev \in {"farmer", "plot", "farm", "irrigation"}))
        |-> <<SelectSeq(Trace, LAMBDA x : x.ev \in {"farmer", "plot", "farm", "irrigation"})[i].ev,
              SelectSeq(Trace, LAMBDA x : x.ev \in {"farmer", "plot", "farm", "irrigation"})[i].g>>]
       = << <<"farmer", 0>>, <<"plot", 1>>, <<"farm", 1>>, <<"irrigation", 1>>,
            <<"plot", 2>>, <<"farm", 2>>, <<"irrigation", 2>> >>

\* the dispatches of the plot of group g to one target
Dispatches(g, target) ==
  {i \in 1..Len(Trace) : Trace[i].ev = "sync" /\ Trace[i].g = g /\ Trace[i].target = target}

PlotCreated(g) == \E i \in 1..Len(Trace) : Trace[i].ev = "plot" /\ Trace[i].g = g

Targets == {sync_services[i] : i \in 1..Len(sync_services)}

\* C20: each plot a registration creates is dispatched to each of the five
\* sync targets exactly once (saving the plot dispatches nothing, the skip
\* flag being set before the save, and nothing is retried); a group that
\* created no plot causes no dispatch; the dispatches of a plot come after
\* the farm and irrigation steps of its own group.
C20_DispatchOncePerPlot ==
  Registered =>
    /\ \A i \in 1..Len(Trace) :
         Trace[i].ev = "sync" =>
           /\ PlotCreated(Trace[i].g)
           /\ Trace[i].target \in Targets
           /\ Cardinality(Dispatches(Trace[i].g, Trace[i].target)) = 1
           /\ \A j \in GroupSteps : Trace[j].g = Trace[i].g => j < i
    /\ res.out.success =>
         \A g \in 1..Len(res.out.created_entities) :
           /\ PlotCreated(g) <=> res.out.created_entities[g].plot # NoneId
           /\ \A target \in Targets :
                Cardinality(Dispatches(g, target)) = IF PlotCreated(g) THEN 1 ELSE 0
           /\ \A i \in 1..Len(Trace) :
                (Trace[i].ev = "sync" /\ Trace[i].g = g) =>
                  /\ res.out.created_entities[g].farm # NoneId => Preceded(i, "farm")
                  /\ res.out.created_entities[g].irrigation # NoneId
                       => Preceded(i, "irrigation")

\* a full group and a group without a plot: five dispatches for group 1,
\* after its irrigation step, none for group 2
C20_Witness ==
  /\ Registered
  /\ res.out.success
  /\ Len(res.out.created_entities) = 2
  /\ res.out.created_entities[1].irrigation # NoneId
  /\ res.out.created_entities[2].plot = NoneId
  /\ \A target \in Targets : Cardinality(Dispatches(1, target)) = 1
  /\ \A target \in Targets : Dispatches(2, target) = {}

----------------------------------------------------------------------------
(* Concurrent registrations.  register_complete_farmer runs in one         *)
(* transaction.atomic block per call (line 21); two calls run as two       *)
(* transactions of the database's default isolation, READ COMMITTED: a     *)
(* statement sees the committed rows and the rows its own transaction      *)
(* wrote.  store.db holds every row ever inserted, ids being allotted at   *)
(* insertion; store.owner tags each row 0 (committed), 1 or 2 (written by  *)
(* that transaction, not yet committed) or -1 (rolled back).  A step of a  *)
(* transaction is one _create_* call; the sync targets all succeed here.   *)

Txns == {1, 2}

RaceTables ==
  {"users", "plots", "farms", "irrigations", "soil_types", "crop_types",
   "plantation_types", "planting_methods", "irrigation_types"}

\* a row another transaction has not committed matches no filter
Hidden(tbl, row) ==
  CASE tbl = "users" -> [row EXCEPT !.username = "", !.email = "", !.phone_number = NoneSeq]
    [] tbl = "plots" -> [row EXCEPT !.gat_number = ""]
    [] tbl \in {"soil_types", "irrigation_types"} -> [row EXCEPT !.name = ""]
    [] tbl = "crop_types" -> [row EXCEPT !.crop_type = ""]
    [] tbl \in {"plantation_types", "planting_methods"} -> [row EXCEPT !.code = <<>>, !.name = <<>>]
    [] OTHER -> row

\* what the statements of transaction t read
RaceView(t) ==
  [tbl \in DOMAIN store.db |->
     IF tbl = "roles" THEN store.db.roles
     ELSE [i \in 1..Len(store.db[tbl]) |->
             IF store.owner[tbl][i] \in {0, t}
             THEN store.db[tbl][i]
             ELSE Hidden(tbl, store.db[tbl][i])]]

\* lines 342-351 and 396-406: "get_or_create with unique constraint fields"
ReferenceKey(tbl, row) ==
  IF tbl = "plantation_types"
  THEN <<row.industry, row.code>>
  ELSE <<row.plantation_type, row.industry, row.code>>

\* SoilType and IrrigationType are unique by name
NameKey(row) == <<row.name>>

Constrained == {"plantation_types", "planting_methods", "soil_types", "irrigation_types"}

UniqueKey(tbl, row) ==
  IF tbl \in {"plantation_types", "planting_methods"}
  THEN ReferenceKey(tbl, row)
  ELSE NameKey(row)

\* the rows a step appended to the table
Inserted(tbl, r) == SubSeq(r.store[tbl], Len(store.db[tbl]) + 1, Len(r.store[tbl]))

\* an insert whose unique key another open transaction holds waits for that
\* transaction to end; get_or_create then re-queries
Blocked(t, r) ==
  \E tbl \in Constrained :
    \E i \in 1..Len(Inserted(tbl, r)), j \in 1..Len(store.db[tbl]) :
      /\ store.owner[tbl][j] \in Txns \ {t}
      /\ UniqueKey(tbl, store.db[tbl][j]) = UniqueKey(tbl, Inserted(tbl, r)[i])

Written(t, r) ==
  [db |-> [tbl \in DOMAIN store.db |->
             IF tbl = "roles" THEN store.db.roles
             ELSE store.db[tbl] \o Inserted(tbl, r)],
   owner |-> [tbl \in RaceTables |->
                store.owner[tbl] \o [i \in 1..Len(Inserted(tbl, r)) |-> t]],
   tx |-> store.tx]

\* the end of the atomic block: every row of t becomes committed (to = 0)
\* or is rolled back (to = -1)
Ended(t, to) ==
  [tbl \in RaceTables |->
     [i \in 1..Len(store.owner[tbl]) |->
        IF store.owner[tbl][i] = t THEN to ELSE store.owner[tbl][i]]]

\* one _create_* call of transaction t, with result r
RaceStepped(t, r, field, pc) ==
  /\ ~Blocked(t, r)
  /\ store' = IF r.ok
              THEN [Written(t, r) EXCEPT !.tx[t].pc = pc, !.tx[t][field] = r.val]
              ELSE [store EXCEPT !.owner = Ended(t, -1),
                                 !.tx[t].pc = "failed", !.tx[t].err = r.err]
  /\ UNCHANGED <<req, res, ncalls>>

RaceGroup(t) == PlotsData(store.tx[t].data)[1]

RaceFarmData(t) ==
  MergeFarmData(RaceGroup(t)["farm"], Get(store.tx[t].data, "farm", NoneDict))

\* line 35
RaceFarmer(t) ==
  /\ store.tx[t].pc = "farmer"
  /\ RaceStepped(t, create_farmer(RaceView(t), store.tx[t].data["farmer"], store.tx[t].fo),
                 "farmer", "plot")

\* lines 50-55
RacePlot(t) ==
  /\ store.tx[t].pc = "plot"
  /\ RaceStepped(t, create_plot(RaceView(t), RaceGroup(t)["plot"],
                                store.tx[t].farmer, store.tx[t].fo),
                 "plot", "farm")

\* lines 57-104
RaceFarm(t) ==
  /\ store.tx[t].pc = "farm"
  /\ RaceStepped(t, create_farm(RaceView(t), RaceFarmData(t), store.tx[t].farmer,
                                store.tx[t].fo, store.tx[t].plot),
                 "farm", "irrigation")

\* lines 108-113
RaceIrrigation(t) ==
  /\ store.tx[t].pc = "irrigation"
  /\ RaceStepped(t, create_farm_irrigation(RaceView(t), RaceGroup(t)["irrigation"],
                                           store.tx[t].farm, store.tx[t].fo,
                                           RaceFarmData(t)),
                 "irrigation", "commit")

\* the atomic block is left without an exception
RaceCommit(t) ==
  /\ store.tx[t].pc = "commit"
  /\ store' = [store EXCEPT !.owner = Ended(t, 0), !.tx[t].pc = "done"]
  /\ UNCHANGED <<req, res, ncalls>>

RaceFarmKinds == {"name", "soil", "known", "new"}

RaceFarmOf(kind) ==
  CASE kind = "name" -> CropFarm(<<>>, <<>>)
    [] kind = "soil" -> CropFarm(<<>>, <<>>) @@ [soil_type_name |-> "Loam"]
    [] kind = "known" -> CropFarm(<<"a">>, <<>>)
    [] kind = "new" -> CropFarm(<<"d">>, <<"b">>)

RaceData(t, gat, kind) ==
  [farmer |-> FarmerData(FreshNames[t], FreshMails[t], NoneSeq),
   plots |-> <<[plot |-> PlotData(gat, "X"), farm |-> RaceFarmOf(kind),
                irrigation |-> IrrOk]>>]

RaceTx(t, gat, kind) ==
  [pc |-> "farmer", data |-> RaceData(t, gat, kind), fo |-> 1,
   farmer |-> NoneId, plot |-> NoneId, farm |-> NoneId, irrigation |-> NoneId,
   err |-> ""]

\* the store the two calls start from: the officers and some reference rows
RaceSeed ==
  [InitStore EXCEPT !.plantation_types = SeedPlantationTypes,
                    !.planting_methods = SeedPlantingMethods]

InitRace ==
  /\ \E gat \in {Gats[1], Gats[2]}, k1 \in RaceFarmKinds, k2 \in RaceFarmKinds :
       store = [db |-> RaceSeed,
                owner |-> [tbl \in RaceTables |-> [i \in 1..Len(RaceSeed[tbl]) |-> 0]],
                tx |-> [t \in Txns |->
                          RaceTx(t, IF t = 1 THEN Gats[1] ELSE gat,
                                 IF t = 1 THEN k1 ELSE k2)]]
  /\ req = NoRequest
  /\ res = NoResult
  /\ ncalls = 0

RaceFarmerStep == \E t \in Txns : RaceFarmer(t)
RacePlotStep == \E t \in Txns : RacePlot(t)
RaceFarmStep == \E t \in Txns : RaceFarm(t)
RaceIrrigationStep == \E t \in Txns : RaceIrrigation(t)
RaceCommitStep == \E t \in Txns : RaceCommit(t)

NextRace ==
  \/ RaceFarmerStep
  \/ RacePlotStep
  \/ RaceFarmStep
  \/ RaceIrrigationStep
  \/ RaceCommitStep

SpecRace == InitRace /\ [][NextRace]_vars

CommittedIds(tbl) == {i \in 1..Len(store.db[tbl]) : store.owner[tbl][i] = 0}

\* C21: of two concurrent registrations that ask for the same (gat_number,
\* plot_number, village, district), at most one commits a Plot: no two
\* committed plots share the tuple.
C21_OnePlotPerKey ==
  \A i \in CommittedIds("plots"), j \in CommittedIds("plots") :
    RowKey(store.db.plots[i]) = RowKey(store.db.plots[j]) => i = j

\* what identifies a row of a reference table
ReferenceIdentity(tbl, row) ==
  IF tbl = "crop_types" THEN Triple(row) ELSE UniqueKey(tbl, row)

BothEnded == \A t \in Txns : store.tx[t].pc \in {"done", "failed"}

\* the two calls name the same reference entities and different plots
SameReferencesAsked ==
  /\ store.tx[1].data.plots[1].farm = store.tx[2].data.plots[1].farm
  /\ store.tx[1].data.plots[1].plot # store.tx[2].data.plots[1].plot

RaceFarmRow(t) == store.db.farms[store.tx[t].farm]

\* C22: when two concurrent registrations need the same reference entity
\* (SoilType or IrrigationType name, PlantationType, PlantingMethod or
\* CropType triple), one row of it ends up committed and both registrations
\* succeed, their farms linked to that one row.
C22_OneRowPerReference ==
  (BothEnded /\ SameReferencesAsked) =>
    /\ \A t \in Txns : store.tx[t].pc = "done"
    /\ \A tbl \in Constrained \cup {"crop_types"} :
         \A i \in CommittedIds(tbl), j \in CommittedIds(tbl) :
           ReferenceIdentity(tbl, store.db[tbl][i]) = ReferenceIdentity(tbl, store.db[tbl][j])
             => i = j
    /\ RaceFarmRow(1).crop_type = RaceFarmRow(2).crop_type
    /\ RaceFarmRow(1).soil_type = RaceFarmRow(2).soil_type

----------------------------------------------------------------------------
(* Claims about the CropType fallback and the soft failures, under SpecCrop
   and SpecFault *)

\* C24: when no plantation type and no planting method resolved, the crop
\* type is found or created by name alone: the call does not fail and the
\* farm's CropType has the requested name, an existing one if any exists,
\* otherwise a new one.
C24_NameOnlyFindOrCreate ==
  (Registered /\ ~HasPlantationData) =>
    /\ res.out.success
    /\ NewFarmCrop.crop_type = ReqFarm.crop_type_name
    /\ IF CropByName(res.before, ReqFarm.crop_type_name) # {}
       THEN store.crop_types = res.before.crop_types
       ELSE Len(store.crop_types) = Len(res.before.crop_types) + 1

FaultTexts == {<<>>, <<"a">>, <<"b", "_", "c">>, <<"a", "NUL">>}

RegisterFault ==
  \E pt \in FaultTexts, pm \in {<<>>, <<"d">>, <<"d", "NUL">>}, fo \in {1, 2} :
    /\ ncalls < MaxCropCalls
    /\ Call(Request([farmer |-> FarmerOfKind("fresh"),
                     plots |-> <<[plot |-> PlotData(Gats[ncalls + 1], "X"),
                                  farm |-> CropFarm(pt, pm),
                                  irrigation |-> IrrOk]>>],
                    fo, AllTrue, AllTrue))

SpecFault == Init /\ [][RegisterFault]_vars

\* the free text of the request makes the lookup raise
FaultIn(field) ==
  field \in DOMAIN ReqFarm /\ LookupRaises(ReqFarm[field].v)

\* C23: a fault raised while a PlantationType or PlantingMethod is looked up
\* from free text never aborts the registration: the reference resolves to
\* no match, the farm and the rest of the group are created and the call
\* commits.
C23_LookupFaultSoftFails ==
  (Registered /\ (FaultIn("plantation_type") \/ FaultIn("planting_method"))) =>
    /\ res.out.success
    /\ Len(store.farms) = Len(res.before.farms) + 1
    /\ Len(store.irrigations) = Len(res.before.irrigations) + 1
    /\ FaultIn("plantation_type") => store.plantation_types = res.before.plantation_types
    /\ FaultIn("planting_method") => store.planting_methods = res.before.planting_methods

----------------------------------------------------------------------------
(* SpecTypes: soil types and irrigation types by id and by name *)

TypeKinds == {"none", "id1", "id2", "id1_name", "loam", "clay"}

\* the id and name keys of one kind of request, for the keys id_key, name_key
TypeKeys(kind, id_key, name_key, loam, clay) ==
  CASE kind = "none" -> NoneDict
    [] kind = "id1" -> id_key :> 1
    [] kind = "id2" -> id_key :> 2
    [] kind = "id1_name" -> (id_key :> 1) @@ (name_key :> clay)
    [] kind = "loam" -> name_key :> loam
    [] kind = "clay" -> name_key :> clay

RegisterTypes ==
  \E s \in TypeKinds, i \in TypeKinds :
    /\ ncalls < MaxRefCalls
    /\ Call(Request([farmer |-> FarmerOfKind("fresh"),
                     plots |-> <<[plot |-> PlotData(Gats[ncalls + 1], "X"),
                                  farm |-> TypeKeys(s, "soil_type_id", "soil_type_name",
                                                    "Loam", "Clay")
                                           @@ [address |-> "addr", area_size |-> 5],
                                  irrigation |-> TypeKeys(i, "irrigation_type_id",
                                                          "irrigation_type_name",
                                                          "Drip", "Flood")
                                                 @@ [status |-> TRUE]]>>],
                    1, AllTrue, AllTrue))

SpecTypes == Init /\ [][RegisterTypes]_vars

ReqIrrigation == req.data.plots[1].irrigation

\* the rule of C25 for one kind of type: block is the request's sub-dict,
\* table the kind's table, linked the id the created row carries
TypeRule(block, id_key, name_key, table, linked) ==
  /\ (id_key \in DOMAIN block /\ ~HasId(res.before[table], block[id_key]))
       => ~res.out.success /\ store = res.before
  /\ (res.out.success /\ id_key \in DOMAIN block)
       => linked = block[id_key] /\ store[table] = res.before[table]
  /\ (res.out.success /\ id_key \notin DOMAIN block /\ name_key \in DOMAIN block)
       => /\ store[table][linked].name = block[name_key]
          /\ IF NamedIds(res.before[table], block[name_key]) # {}
             THEN store[table] = res.before[table]
             ELSE /\ store[table] = Append(res.before[table], store[table][linked])
                  /\ store[table][linked].description = "Auto-created"
  /\ (res.out.success /\ DOMAIN block \cap {id_key, name_key} = {})
       => linked = NoneId /\ store[table] = res.before[table]
  /\ \A a, b \in 1..Len(store[table]) :
       store[table][a].name = store[table][b].name => a = b

\* C25: for SoilType and IrrigationType, an id that does not exist aborts
\* the registration with nothing persisted; an id wins over a name; a name
\* without id finds the type of that name or creates it with an
\* auto-generated description; no two types of a kind share a name.
C25_TypeByIdOrName ==
  Registered =>
    /\ TypeRule(ReqFarm, "soil_type_id", "soil_type_name", "soil_types",
                IF res.out.success THEN store.farms[Len(store.farms)].soil_type ELSE NoneId)
    /\ TypeRule(ReqIrrigation, "irrigation_type_id", "irrigation_type_name",
                "irrigation_types",
                IF res.out.success
                THEN store.irrigations[Len(store.irrigations)].irrigation_type
                ELSE NoneId)

\* a soil type given by id 1 together with the name Clay is linked by id and
\* no Clay is created, while the irrigation type id 2 does not exist: the
\* call before created Loam and Drip
C25_Witness ==
  /\ Registered
  /\ ~res.out.success
  /\ Len(res.before.soil_types) = 1
  /\ ReqFarm = [soil_type_id |-> 1, soil_type_name |-> "Clay", address |-> "addr", area_size |-> 5]
  /\ ReqIrrigation = [irrigation_type_id |-> 2, status |-> TRUE]
  /\ store = res.before

----------------------------------------------------------------------------
(* SpecMerge: one registration whose request has a top-level farm block
   next to the farm sub-block of its group (lines 59-103) *)

MergedFields ==
  {"plantation_date", "address", "area_size", "soil_type_name", "crop_type_name",
   "spacing_a", "spacing_b"}

\* a non-empty value of field k, the group's (own) or the top-level one
FieldValue(k, own) ==
  CASE k = "address" -> IF own THEN "addr" ELSE "top addr"
    [] k = "area_size" -> IF own THEN 5 ELSE 7
    [] k = "soil_type_name" -> IF own THEN "Loam" ELSE "Clay"
    [] k = "crop_type_name" -> IF own THEN "Wheat" ELSE "Rice"
    [] k = "plantation_date" ->
         IF own THEN PyStr(<<"2", "0", "2", "4", "-", "0", "1", "-", "1", "5">>)
         ELSE PyDate(2023, 2, 3)
    [] OTHER -> IF own THEN PyInt(10) ELSE PyInt(20)

\* an empty (falsy) value of field k
EmptyValue(k) ==
  CASE k \in {"address", "soil_type_name", "crop_type_name"} -> ""
    [] k = "area_size" -> 0
    [] k = "plantation_date" -> PyStr(<<>>)
    [] OTHER -> PyInt(0)

FieldStates == {"absent", "empty", "set"}

FieldPart(k, state, own) ==
  CASE state = "absent" -> NoneDict
    [] state = "empty" -> k :> EmptyValue(k)
    [] state = "set" -> k :> FieldValue(k, own)

\* keys of the top-level block that the merge does not read (no row has id 9)
UnmergedKeys == [soil_type_id |-> 9, crop_type_id |-> 9]

MergeCall(own, top) ==
  /\ ncalls = 0
  /\ Call(Request([farmer |-> FarmerOfKind("fresh"),
                   farm |-> top,
                   plots |-> <<[plot |-> PlotData(Gats[1], "X"), farm |-> own]>>],
                  1, AllTrue, AllTrue))

RegisterMergedFields ==
  \E k \in MergedFields, o \in FieldStates, t \in FieldStates, other \in BOOLEAN :
    MergeCall(FieldPart(k, o, TRUE) @@ [address |-> "addr", area_size |-> 5],
              FieldPart(k, t, FALSE) @@ (IF other THEN UnmergedKeys ELSE NoneDict))

OwnRefShapes == {"absent", "id", "id_falsy", "bare", "bare_falsy"}
TopRefShapes == {"absent", "id", "digits", "text", "int", "id_and_text", "falsy"}

IdKey(k) == IF k = "plantation_type" THEN "plantation_type_id" ELSE "planting_method_id"

OwnRef(k, shape) ==
  CASE shape = "absent" -> NoneDict
    [] shape = "id" -> IdKey(k) :> 2
    [] shape = "id_falsy" -> IdKey(k) :> NoneId
    [] shape = "bare" -> k :> PyStr(<<"a">>)
    [] shape = "bare_falsy" -> k :> PyNone

TopRef(k, shape) ==
  CASE shape = "absent" -> NoneDict
    [] shape = "id" -> IdKey(k) :> 1
    [] shape = "digits" -> k :> PyStr(<<"2">>)
    [] shape = "text" -> k :> PyStr(<<"c">>)
    [] shape = "int" -> k :> PyInt(2)
    [] shape = "id_and_text" -> (IdKey(k) :> 1) @@ (k :> PyStr(<<"c">>))
    [] shape = "falsy" -> k :> PyStr(<<>>)

RegisterMergedRefs ==
  \E k \in {"plantation_type", "planting_method"}, o \in OwnRefShapes, t \in TopRefShapes :
    MergeCall(OwnRef(k, o) @@ [address |-> "addr", area_size |-> 5, crop_type_name |-> "Wheat"],
              TopRef(k, t))

NextMerge == RegisterMergedFields \/ RegisterMergedRefs

SpecMerge == InitRefs /\ [][NextMerge]_vars

TopFarm == req.data.farm

\* the group's own value if non-empty, else the top-level value if non-empty,
\* else what the group gave (an empty value or nothing)
Effective(k, unset) ==
  IF FarmFieldTruthy(k, ReqFarm) THEN ReqFarm[k]
  ELSE IF FarmFieldTruthy(k, TopFarm) THEN TopFarm[k]
  ELSE Get(ReqFarm, k, unset)

NewFarm == store.farms[Len(store.farms)]

\* C26: for each field of {plantation_date, address, area_size,
\* soil_type_name, crop_type_name, spacing_a, spacing_b} the farm is created
\* from the group's own value if non-empty, else from the top-level block's
\* value if non-empty, else the field stays unset (so a call without address
\* or area_size fails); no other key of the top-level block is used.
C26_FieldFallback ==
  (Registered /\ "farm" \in DOMAIN req.data) =>
    /\ res.out.success <=> (Effective("address", "") # "" /\ Effective("area_size", 0) # 0)
    /\ res.out.success =>
         /\ NewFarm.address = Effective("address", "")
         /\ NewFarm.area_size = Effective("area_size", 0)
         /\ NewFarm.spacing_a = Effective("spacing_a", PyNone)
         /\ NewFarm.spacing_b = Effective("spacing_b", PyNone)
         /\ NewFarm.plantation_date =
              parse_plantation_date(Effective("plantation_date", PyNone))
         /\ IF Effective("soil_type_name", "") = "" THEN NewFarm.soil_type = NoneId
            ELSE /\ NewFarm.soil_type # NoneId
                 /\ store.soil_types[NewFarm.soil_type].name = Effective("soil_type_name", "")
         /\ IF Effective("crop_type_name", "") = "" THEN NewFarm.crop_type = NoneId
            ELSE /\ NewFarm.crop_type # NoneId
                 /\ store.crop_types[NewFarm.crop_type].crop_type
                      = Effective("crop_type_name", "")

\* the group gives an empty soil_type_name, the top-level block names Clay
\* and also carries a soil_type_id that is not merged: the farm's soil is Clay
C26_Witness ==
  /\ Registered
  /\ res.out.success
  /\ ReqFarm = [soil_type_name |-> "", address |-> "addr", area_size |-> 5]
  /\ TopFarm = [soil_type_name |-> "Clay", soil_type_id |-> 9, crop_type_id |-> 9]
  /\ store.soil_types[NewFarm.soil_type].name = "Clay"

\* the reference of kind k that the claim's rule selects, as a farm block
ExpectedRef(k) ==
  LET from == IF IdKey(k) \in DOMAIN ReqFarm \/ k \in DOMAIN ReqFarm
              THEN ReqFarm ELSE TopFarm
  IN  IF FarmFieldTruthy(IdKey(k), from) THEN IdKey(k) :> from[IdKey(k)]
      ELSE IF ~FarmFieldTruthy(k, from) THEN NoneDict
      ELSE IF from = TopFarm /\ from[k].t = "str" /\ IsDigitStr(from[k].v)
      THEN IdKey(k) :> IntOf(from[k].v)
      ELSE k :> from[k]

\* C27: plantation_type and planting_method are merged by key presence: when
\* the group's farm block has the '<field>_id' key or the bare key, even with
\* a falsy value, the top-level value is not used; when both are absent the
\* top-level value is used, an all-digit string as an id reference and any
\* other value as free text.
C27_ReferenceByKeyPresence ==
  (Registered /\ "farm" \in DOMAIN req.data /\ Effective("crop_type_name", "") # "") =>
    LET pt == ResolvePlantationType(res.before, ExpectedRef("plantation_type"),
                                    OperatorIndustry)
        pm == ResolvePlantingMethod(res.before, ExpectedRef("planting_method"),
                                    OperatorIndustry, NoneId)
    IN  /\ res.out.success <=> (pt.ok /\ pm.ok)
        /\ res.out.success =>
             /\ NewFarmCrop.plantation_type = pt.val
             /\ NewFarmCrop.planting_method = pm.val

\* the group carries plantation_type_id with a falsy value, the top-level
\* block names plantation type 1: the farm's crop type has no plantation type
C27_Witness ==
  /\ Registered
  /\ res.out.success
  /\ "farm" \in DOMAIN req.data
  /\ "plantation_type_id" \in DOMAIN ReqFarm
  /\ ReqFarm.plantation_type_id = NoneId
  /\ "plantation_type_id" \in DOMAIN TopFarm
  /\ NewFarmCrop.plantation_type = NoneId

----------------------------------------------------------------------------
(* SpecIrrigation: one registration with an irrigation block, the spacing
   coming from the group's farm block or from the top-level one *)

IrrigationNames == {"", "Drip", "DRIP", "drip", "Flood"}

SpacingKinds == {"none", "ten", "zero", "negative", "word", "digits"}

SpacingInput(kind) ==
  CASE kind = "none" -> PyNone
    [] kind = "ten" -> PyInt(10)
    [] kind = "zero" -> PyInt(0)
    [] kind = "negative" -> PyInt(-5)
    [] kind = "word" -> PyStr(<<"a", "b">>)
    [] kind = "digits" -> PyStr(<<"2", "0">>)

ExplicitInputs == {PyNone, PyInt(500), PyInt(0)}

SpacingBlock(a, b) ==
  (IF a.t = "none" THEN NoneDict ELSE [spacing_a |-> a])
  @@ (IF b.t = "none" THEN NoneDict ELSE [spacing_b |-> b])

IrrigationBlock(name, explicit) ==
  (IF name = "" THEN NoneDict ELSE [irrigation_type_name |-> name])
  @@ (IF explicit.t = "none" THEN NoneDict ELSE [plants_per_acre |-> explicit])
  @@ [status |-> TRUE]

RegisterIrrigation ==
  \E name \in IrrigationNames, explicit \in ExplicitInputs,
     a \in SpacingKinds, b \in SpacingKinds, top \in BOOLEAN :
    /\ ncalls = 0
    /\ Call(Request([farmer |-> FarmerOfKind("fresh"),
                     farm |-> IF top THEN SpacingBlock(SpacingInput(a), SpacingInput(b))
                              ELSE NoneDict,
                     plots |-> <<[plot |-> PlotData(Gats[1], "X"),
                                  farm |-> (IF top THEN NoneDict
                                            ELSE SpacingBlock(SpacingInput(a), SpacingInput(b)))
                                           @@ [address |-> "addr", area_size |-> 5],
                                  irrigation |-> IrrigationBlock(name, explicit)]>>],
                    1, AllTrue, AllTrue))

SpecIrrigation == Init /\ [][RegisterIrrigation]_vars

NewIrrigation == store.irrigations[Len(store.irrigations)]

\* the value is a positive number: an integer or a string of digits
Positive(x) ==
  \/ x.t = "int" /\ x.v > 0
  \/ x.t = "str" /\ IsDigitStr(x.v) /\ IntOf(x.v) > 0

NumberOf(x) == IF x.t = "int" THEN x.v ELSE IntOf(x.v)

\* equality of two tagged values
SameValue(x, y) == x.t = y.t /\ x.v = y.v

Supplied == Get(ReqIrrigation, "plants_per_acre", PyNone)

Derives ==
  /\ ~PyTruthy(Supplied)
  /\ "irrigation_type_name" \in DOMAIN ReqIrrigation
  /\ ReqIrrigation.irrigation_type_name \in {"Drip", "DRIP", "drip"}
  /\ Positive(Effective("spacing_a", PyNone))
  /\ Positive(Effective("spacing_b", PyNone))

BadSpacing(x) == x.t # "none" /\ ~Positive(x)

\* C29: a spacing that is zero, negative or not a number never aborts the
\* registration: nothing is derived, the FarmIrrigation is created and the
\* call succeeds.
C29_BadSpacingSoftFails ==
  (/\ Registered
   /\ "irrigation" \in DOMAIN req.data.plots[1]
   /\ "farm" \in DOMAIN req.data
   /\ \/ BadSpacing(Effective("spacing_a", PyNone))
      \/ BadSpacing(Effective("spacing_b", PyNone)))
  => /\ res.out.success
     /\ res.out.raised = ""
     /\ Len(store.irrigations) = Len(res.before.irrigations) + 1
     /\ NewIrrigation.farm = Len(store.farms)
     /\ SameValue(NewIrrigation.plants_per_acre, Supplied)

\* drip irrigation with spacing 'ab' x -5 and nothing supplied: the
\* irrigation is created without plants_per_acre
C29_Witness ==
  /\ Registered
  /\ res.out.success
  /\ DOMAIN ReqFarm = {"spacing_a", "spacing_b", "address", "area_size"}
  /\ SameValue(ReqFarm.spacing_a, PyStr(<<"a", "b">>))
  /\ SameValue(ReqFarm.spacing_b, PyInt(-5))
  /\ ReqIrrigation = [irrigation_type_name |-> "Drip", status |-> TRUE]
  /\ NewIrrigation.plants_per_acre.t = "none"

----------------------------------------------------------------------------
(* SpecDate: registrations with a plantation date of every kind *)

DateKinds == {"iso", "short", "slashes", "no_day", "word", "date", "int", "empty"}

DateInput(kind) ==
  CASE kind = "iso" -> PyStr(<<"2", "0", "2", "4", "-", "0", "2", "-", "2", "9">>)
    [] kind = "short" -> PyStr(<<"2", "0", "2", "4", "-", "1", "-", "5">>)
    [] kind = "slashes" -> PyStr(<<"2", "0", "2", "4", "/", "0", "1", "/", "1", "5">>)
    [] kind = "no_day" -> PyStr(<<"2", "0", "2", "3", "-", "0", "2", "-", "2", "9">>)
    [] kind = "word" -> PyStr(<<"a", "b">>)
    [] kind = "date" -> PyDate(2023, 2, 3)
    [] kind = "int" -> PyInt(5)
    [] kind = "empty" -> PyStr(<<>>)

RegisterDate ==
  \E kind \in DateKinds, top \in BOOLEAN, fo \in {1, 2} :
    /\ ncalls < MaxRefCalls
    /\ Call(Request([farmer |-> FarmerOfKind("fresh"),
                     farm |-> IF top THEN [plantation_date |-> DateInput(kind)] ELSE NoneDict,
                     plots |-> <<[plot |-> PlotData(Gats[ncalls + 1], "X"),
                                  farm |-> (IF top THEN NoneDict
                                            ELSE [plantation_date |-> DateInput(kind)])
                                           @@ [address |-> "addr", area_size |-> 5]]>>],
                    fo, AllTrue, AllTrue))

SpecDate == Init /\ [][RegisterDate]_vars

SuppliedDate == Effective("plantation_date", PyNone)

\* C30: an ISO 'YYYY-MM-DD' string is stored as that date, a native date as
\* it is; any other supplied value gives a farm with no plantation date, and
\* no value aborts the registration.
C30_PlantationDate ==
  (Registered /\ "farm" \in DOMAIN req.data /\ PyTruthy(SuppliedDate)) =>
    /\ res.out.success
    /\ SameValue(NewFarm.plantation_date,
                 IF SuppliedDate.t = "str" THEN ParseIsoDate(SuppliedDate.v)
                 ELSE IF SuppliedDate.t = "date" THEN SuppliedDate
                 ELSE PyNone)

----------------------------------------------------------------------------
(* SpecGeo: one registration with geometries of every kind on the plot and
   on the irrigation *)

GeoKinds ==
  {"absent", "point", "text", "no_type", "no_coordinates", "empty", "bad",
   "bad_text", "other"}

GeoInput(kind, geos) ==
  CASE kind = "point" -> [kind |-> "dict", keys |-> {"type", "coordinates"}, geos |-> geos]
    [] kind = "text" -> [kind |-> "str", keys |-> {}, geos |-> geos]
    [] kind = "no_type" -> [kind |-> "dict", keys |-> {"coordinates"}, geos |-> ""]
    [] kind = "no_coordinates" -> [kind |-> "dict", keys |-> {"type"}, geos |-> ""]
    [] kind = "empty" -> [kind |-> "dict", keys |-> {}, geos |-> ""]
    [] kind = "bad" -> [kind |-> "dict", keys |-> {"type", "coordinates"}, geos |-> ""]
    [] kind = "bad_text" -> [kind |-> "str", keys |-> {}, geos |-> ""]
    [] kind = "other" -> [kind |-> "other", keys |-> {}, geos |-> ""]

GeoBlock(key, kind, geos) ==
  IF kind = "absent" THEN NoneDict ELSE key :> GeoInput(kind, geos)

RegisterGeo ==
  \E loc \in GeoKinds, bnd \in {"absent", "point", "no_type"}, iloc \in GeoKinds :
    /\ ncalls = 0
    /\ Call(Request([farmer |-> FarmerOfKind("fresh"),
                     plots |-> <<[plot |-> GeoBlock("location", loc, "POINT(1 2)")
                                           @@ GeoBlock("boundary", bnd, "POLYGON(1 2)")
                                           @@ PlotData(Gats[1], "X"),
                                  farm |-> [address |-> "addr", area_size |-> 5],
                                  irrigation |-> GeoBlock("location", iloc, "POINT(3 4)")
                                                 @@ IrrOk]>>],
                    1, AllTrue, AllTrue))

SpecGeo == Init /\ [][RegisterGeo]_vars

ReqPlot == req.data.plots[1].plot

\* the geometry the request supplies under the key, if any (an empty
\* mapping is no geometry)
Geometry(block, key) == Get(block, key, NoneDict)

HasGeometry(block, key) == TruthyGeo(Geometry(block, key))

\* a mapping with 'type' and 'coordinates', or a string, that converts
WellFormed(g) ==
  /\ g.geos # ""
  /\ \/ g.kind = "dict" /\ {"type", "coordinates"} \subseteq g.keys
     \/ g.kind = "str"

Malformed(block, key) == HasGeometry(block, key) /\ ~WellFormed(Geometry(block, key))

\* C31: the location of a created FarmIrrigation is the irrigation geometry
\* if supplied, else the plot's stored location if it has one, else the
\* origin point; a missing irrigation location never fails the call, only a
\* supplied malformed geometry does.
C31_IrrigationLocation ==
  (Registered /\ "irrigation" \in DOMAIN req.data.plots[1]) =>
    /\ ~res.out.success =>
         \/ Malformed(ReqPlot, "location")
         \/ Malformed(ReqPlot, "boundary")
         \/ Malformed(ReqIrrigation, "location")
    /\ res.out.success =>
         /\ Len(store.irrigations) = Len(res.before.irrigations) + 1
         /\ NewIrrigation.location =
              IF HasGeometry(ReqIrrigation, "location")
              THEN Geometry(ReqIrrigation, "location").geos
              ELSE IF HasGeometry(ReqPlot, "location")
              THEN Geometry(ReqPlot, "location").geos
              ELSE OriginPoint

\* no irrigation geometry and the plot at POINT(1 2): the irrigation is at
\* the plot's location
C31_Witness ==
  /\ Registered
  /\ res.out.success
  /\ "location" \notin DOMAIN ReqIrrigation
  /\ HasGeometry(ReqPlot, "location")
  /\ NewIrrigation.location = "POINT(1 2)"
  /\ store.plots[Len(store.plots)].location = "POINT(1 2)"

\* C32: the geometry conversion accepts only a mapping with both 'type' and
\* 'coordinates' or a string; a mapping without one of the keys, a value of
\* another kind or a conversion fault is a validation failure, which on a
\* plot or irrigation geometry aborts the registration with nothing
\* persisted.
C32_GeometryValidation ==
  (Registered /\ "irrigation" \in DOMAIN req.data.plots[1]
              /\ "irrigation_type_name" \in DOMAIN ReqIrrigation) =>
    IF \/ Malformed(ReqPlot, "location")
       \/ Malformed(ReqPlot, "boundary")
       \/ Malformed(ReqIrrigation, "location")
    THEN /\ ~res.out.success
         /\ res.out.raised = "ValidationError"
         /\ store = res.before
    ELSE /\ res.out.success
         /\ HasGeometry(ReqPlot, "location") =>
              store.plots[Len(store.plots)].location = Geometry(ReqPlot, "location").geos
         /\ HasGeometry(ReqPlot, "boundary") =>
              store.plots[Len(store.plots)].boundary = Geometry(ReqPlot, "boundary").geos

\* the plot and the farm are fine and the irrigation geometry is a value
\* that is neither a mapping nor a string: the call fails and nothing is kept
C32_Witness ==
  /\ Registered
  /\ ~res.out.success
  /\ res.out.raised = "ValidationError"
  /\ ~Malformed(ReqPlot, "location")
  /\ ~Malformed(ReqPlot, "boundary")
  /\ HasGeometry(ReqIrrigation, "location")
  /\ Geometry(ReqIrrigation, "location").kind = "other"
  /\ store = res.before

----------------------------------------------------------------------------
(* SpecLoop: one call of register_complete_farmer, statement by statement.  *)
(* store.db is the database inside the call's transaction, store.pc the      *)
(* statement the call is at, store.g the plot group of the loop of line 50   *)
(* and store.t the sync target of the loop of line 620.  store.ran counts    *)
(* store.data is the request as the call holds it, store.farm_data the local *)
(* farm_data of line 58, and req the request as it was sent.  store.ran      *)
(* counts the runs of each creation step per group, store.sent the           *)
(* invocations                                                               *)
(* of each sync target per group, and ncalls the statements executed so far. *)

LoopSteps == {"plot", "farm", "irrigation"}

LoopState(data, fo, outcome) ==
  [db |-> InitStore, snapshot |-> InitStore, pc |-> "farmer", g |-> 1, t |-> 1,
   data |-> data, fo |-> fo, outcome |-> outcome,
   farmer |-> NoneId, plot |-> NoneId, farm |-> NoneId, irrigation |-> NoneId,
   farm_data |-> NoneDict, report |-> EmptyReport, err |-> "",
   ran |-> [x \in (1..(MaxGroups + 1)) \X LoopSteps |-> 0],
   sent |-> [x \in (1..(MaxGroups + 1)) \X (1..Len(sync_services)) |-> 0]]

\* a top-level farm block: none, or one with an address and a crop
LoopTop(top) ==
  IF top THEN [farm |-> [address |-> "top", crop_type_name |-> "Rice"]] ELSE NoneDict

InitLoop ==
  /\ \E k \in 0..(MaxGroups - 1), kind \in GroupKinds, outcome \in {AllTrue, Mixed},
        fk \in {"fresh", "no_industry"}, top \in BOOLEAN :
       /\ store = LoopState(LoopTop(top)
                              @@ [farmer |-> FarmerData(FreshNames[1], FreshMails[1], NoneSeq),
                                  plots |-> GroupList(k, kind, "X")],
                            IF fk = "no_industry" THEN 3 ELSE 1, outcome)
       /\ req = Request(store.data, store.fo, outcome, outcome)
  /\ res = NoResult
  /\ ncalls = 0

LoopGroups == PlotsData(store.data)

LoopGroup == LoopGroups[store.g]

\* the statement after the last one of a group: the next group, or the return
NextGroupStuck(g) == g

NextGroup(g) == g + 1

\* a creation step with result r: its value is kept and the call goes on, or
\* the exception leaves the loop
LoopStepped(result, step, pc) ==
  /\ \E r \in {result} :
       store' = IF r.ok
                THEN [store EXCEPT !.db = r.store, !.pc = pc, ![step] = r.val,
                                   !.ran[<<store.g, step>>] = @ + 1]
                ELSE [store EXCEPT !.pc = "raise", !.err = r.err,
                                   !.ran[<<store.g, step>>] = @ + 1]
  /\ ncalls' = ncalls + 1
  /\ UNCHANGED <<req, res>>

\* line 35
LoopFarmer ==
  /\ store.pc = "farmer"
  /\ \E r \in {create_farmer(store.db, Get(store.data, "farmer", NoneDict), store.fo)} :
         store' = IF r.ok
                  THEN [store EXCEPT !.db = r.store, !.farmer = r.val,
                                     !.pc = IF Len(LoopGroups) = 0 THEN "return" ELSE "plot"]
                  ELSE [store EXCEPT !.pc = "raise", !.err = r.err]
  /\ ncalls' = ncalls + 1
  /\ UNCHANGED <<req, res>>

\* lines 51-55
LoopPlot ==
  /\ store.pc = "plot"
  /\ LoopStepped(IF TruthyDict(Get(LoopGroup, "plot", NoneDict))
                 THEN create_plot(store.db, LoopGroup["plot"], store.farmer, store.fo)
                 ELSE Ok(store.db, NoneId),
                 "plot", "farm")

\* lines 61-103: the merged values are written to a copy of the group's
\* farm block (line 61), not to a block of the request
LoopFarmData ==
  IF TruthyDict(Get(LoopGroup, "farm", NoneDict)) /\ store.plot # NoneId
  THEN MergeFarmData(LoopGroup["farm"], Get(store.data, "farm", NoneDict))
  ELSE NoneDict

\* the request after the merge, had line 61 not copied the block the merged
\* values are written to and had that block been the top-level one
AfterMergeInPlace(data, farm_data) ==
  IF TruthyDict(farm_data) THEN ("farm" :> farm_data) @@ data ELSE data

\* the request after the merge
AfterMerge(data, farm_data) == data

\* lines 57-107
LoopFarm ==
  /\ store.pc = "farm"
  /\ \E r \in {IF TruthyDict(LoopFarmData)
                THEN create_farm(store.db, LoopFarmData, store.farmer, store.fo, store.plot)
                ELSE Ok(store.db, NoneId)} :
       store' = IF r.ok
                THEN [store EXCEPT !.db = r.store, !.pc = "irrigation", !.farm = r.val,
                                   !.farm_data = LoopFarmData,
                                   !.data = AfterMerge(@, LoopFarmData),
                                   !.ran[<<store.g, "farm">>] = @ + 1]
                ELSE [store EXCEPT !.pc = "raise", !.err = r.err,
                                   !.farm_data = LoopFarmData,
                                   !.data = AfterMerge(@, LoopFarmData),
                                   !.ran[<<store.g, "farm">>] = @ + 1]
  /\ ncalls' = ncalls + 1
  /\ UNCHANGED <<req, res>>

\* lines 108-114
LoopIrrigation ==
  /\ store.pc = "irrigation"
  /\ LoopStepped(IF TruthyDict(Get(LoopGroup, "irrigation", NoneDict)) /\ store.farm # NoneId
                 THEN create_farm_irrigation(store.db, LoopGroup["irrigation"], store.farm,
                                             store.fo, store.farm_data)
                 ELSE Ok(store.db, NoneId),
                 "irrigation", "sync")

\* lines 620-640: one iteration of the loop over the sync targets; the
\* target returns, with a result or an exception
LoopSync ==
  /\ store.pc = "sync"
  /\ store.plot # NoneId
  /\ store.t <= Len(sync_services)
  /\ LET name == sync_services[store.t]
         called == [store.report EXCEPT !.invoked = Append(@, name)]
         rep == IF store.outcome[store.t] = "raise"
                THEN SyncExcept(called, name)
                ELSE SyncResult(called, name, store.outcome[store.t])
     IN  store' = [store EXCEPT !.report = rep, !.t = @ + 1,
                                !.sent[<<store.g, store.t>>] = @ + 1,
                                !.pc = IF rep.raised THEN "raise" ELSE "sync",
                                !.err = IF rep.raised THEN "sync target raised" ELSE @]
  /\ ncalls' = ncalls + 1
  /\ UNCHANGED <<req, res>>

\* line 50: the end of one iteration of the loop over the groups
LoopNext ==
  /\ store.pc = "sync"
  /\ store.plot = NoneId \/ store.t > Len(sync_services)
  /\ store' = [store EXCEPT !.g = NextGroup(@), !.t = 1, !.report = EmptyReport,
                            !.plot = NoneId, !.farm = NoneId, !.irrigation = NoneId,
                            !.farm_data = NoneDict,
                            !.pc = IF NextGroup(store.g) > Len(LoopGroups)
                                   THEN "return" ELSE "plot"]
  /\ ncalls' = ncalls + 1
  /\ UNCHANGED <<req, res>>

\* lines 120-125: the return; the atomic block commits
LoopReturn ==
  /\ store.pc = "return"
  /\ store' = [store EXCEPT !.pc = "returned"]
  /\ ncalls' = ncalls + 1
  /\ UNCHANGED <<req, res>>

\* lines 127-129: the except clause raises ValidationError; the atomic block
\* rolls back
LoopRaise ==
  /\ store.pc = "raise"
  /\ store' = [store EXCEPT !.pc = "raised", !.db = store.snapshot,
                            !.err = OuterExcept(ExceptionClass(store.err))]
  /\ ncalls' = ncalls + 1
  /\ UNCHANGED <<req, res>>

NextLoop ==
  \/ LoopFarmer
  \/ LoopPlot
  \/ LoopFarm
  \/ LoopIrrigation
  \/ LoopSync
  \/ LoopNext
  \/ LoopReturn
  \/ LoopRaise

LoopRunning == store.pc \notin {"returned", "raised"}

\* a statement of the call is executed
LoopStatement == LoopRunning /\ ncalls' = ncalls + 1

\* the call is the only thread of its request and every statement it
\* reaches, a sync target call included, returns: while the call has not
\* ended its next statement is eventually executed
SpecLoop == InitLoop /\ [][NextLoop]_vars /\ WF_ncalls(LoopStatement)

LoopEnded ==
  \/ store.pc = "returned"
  \/ store.pc = "raised" /\ store.err = "ValidationError"

AtMostOnce ==
  /\ \A x \in DOMAIN store.ran : store.ran[x] <= 1
  /\ \A x \in DOMAIN store.sent : store.sent[x] <= 1

\* C33: a register call on finitely many plot groups terminates, returning
\* success or raising a validation fault, provided every sync target call
\* returns; each creation step runs at most once per group and each sync
\* target is invoked at most once per created plot.
C33_Terminates == []AtMostOnce /\ <>LoopEnded

\* the call returned after two groups, every step run once in each and
\* every target invoked once for each plot, some targets failing
C33_Witness ==
  /\ store.pc = "returned"
  /\ store.outcome = Mixed
  /\ Len(LoopGroups) = 2
  /\ \A g \in 1..2 :
       /\ \A step \in LoopSteps : store.ran[<<g, step>>] = 1
       /\ \A t \in 1..Len(sync_services) : store.sent[<<g, t>>] = 1

----------------------------------------------------------------------------
(* SpecVendor: vendors created and updated through VendorSerializer.  The   *)
(* store is the Vendor table, one row per vendor, the row's index its pk.    *)

MaxVendorCalls == 3

Upper(s) == [i \in 1..Len(s) |-> ToUpper(s[i])]

GstinInputs ==
  {NoneSeq, <<>>, <<" ">>, <<"a">>, <<"A">>, <<" ", "a", " ">>, <<"a", " ", "b">>, <<"b">>}

\* line 71 without the upper-casing
GstinUpperKept(value) == value

\* line 71
GstinUpper(value) == Upper(value)

\* lines 74-80: Vendor.objects.filter(gstin_number=value), without the
\* serializer's own instance on an update
GstinExisting(vendors, value, instance) ==
  \E pk \in 1..Len(vendors) :
    /\ vendors[pk].gstin_number = value
    /\ instance = NoneId \/ pk # instance

\* lines 57-87; instance is the pk of the vendor being updated, NoneId on a
\* creation
validate_gstin_number(vendors, value, instance) ==
  IF value = NoneSeq
  THEN [ok |-> TRUE, val |-> NoneSeq]
  ELSE IF Strip(value) = <<>>
  THEN [ok |-> TRUE, val |-> NoneSeq]
  ELSE IF GstinExisting(vendors, GstinUpper(Strip(value)), instance)
  THEN [ok |-> FALSE, val |-> GstinUpper(Strip(value))]
  ELSE [ok |-> TRUE, val |-> GstinUpper(Strip(value))]

VendorSaved(op, pk, value, v, vendors) ==
  /\ store' = [store EXCEPT !.vendors = IF v.ok THEN vendors ELSE @]
  /\ req' = [op |-> op, pk |-> pk, value |-> value]
  /\ res' = [kind |-> "vendor", ok |-> v.ok, val |-> v.val, before |-> store.vendors]
  /\ ncalls' = ncalls + 1

\* lines 89-92: a creation whose data passed validation inserts the row
VendorCreate ==
  \E value \in GstinInputs :
    /\ ncalls < MaxVendorCalls
    /\ LET v == validate_gstin_number(store.vendors, value, NoneId)
       IN  VendorSaved("create", Len(store.vendors) + 1, value, v,
                       Append(store.vendors, [gstin_number |-> v.val]))

\* an update of vendor pk whose data passed validation writes the row
VendorUpdate ==
  \E pk \in 1..Len(store.vendors), value \in GstinInputs :
    /\ ncalls < MaxVendorCalls
    /\ LET v == validate_gstin_number(store.vendors, value, pk)
       IN  VendorSaved("update", pk, value, v,
                       [store.vendors EXCEPT ![pk].gstin_number = v.val])

InitVendor ==
  /\ store = [vendors |-> <<>>]
  /\ req = NoRequest
  /\ res = NoResult
  /\ ncalls = 0

NextVendor ==
  \/ VendorCreate
  \/ VendorUpdate

SpecVendor == InitVendor /\ [][NextVendor]_vars

BlankGstin(value) == value = NoneSeq \/ Strip(value) = <<>>

----------------------------------------------------------------------------
(* C35 under SpecReset *)

\* a confirm request with this token and an acceptable password would reset
\* a password
Usable(st, token) ==
  password_reset_confirm(st, token, Rep("p", PasswordMinLength)).status = 200

IssuedTokens(st) == {st.issued[k].token : k \in 1..Len(st.issued)}

UsableTokens(st, user) ==
  {t \in IssuedTokens(st) : Usable(st, t) /\ UserByToken(st, t) = user}

\* the last request saved a new token
TokenSaved == res.kind = "reset_request" /\ store.next_token # res.before.next_token

\* the last request reset a password
TokenSpent == res.kind = "reset_confirm" /\ res.status = 200

\* C35: a user has at most one usable reset token at any time; a new reset
\* request leaves only the new token usable for the user; a successful
\* confirm clears the token it used; a token that was unusable before a
\* request (replaced, used or expired) is unusable after it and at any later
\* time.
C35_OneUsableToken ==
  /\ \A u \in 1..Len(store.users) : Cardinality(UsableTokens(store, u)) <= 1
  /\ res.kind \in {"reset_request", "reset_confirm"} =>
       \A t \in IssuedTokens(res.before) : ~Usable(res.before, t) => ~Usable(store, t)
  /\ TokenSaved =>
       /\ \A k \in 1..Len(res.before.issued) :
            res.before.issued[k].user = UserByEmail(res.before, req.email)
              => ~Usable(store, res.before.issued[k].token)
       /\ UsableTokens(store, UserByEmail(res.before, req.email))
            \subseteq {res.before.next_token}
  /\ TokenSpent =>
       /\ ~Usable(store, req.token)
       /\ ~TokenStored(store, req.token)

\* the only token issued to a@x has reset the password, and a later confirm
\* with the same token was refused
C35_Witness ==
  /\ Confirmed
  /\ res.status = 400
  /\ res.body.detail = "Invalid or expired reset token"
  /\ Len(req.new_password) >= PasswordMinLength
  /\ Len(res.before.issued) = 2
  /\ res.before.issued[2] = [token |-> req.token, at |-> 0, user |-> 1]
  /\ res.before.users[1].password = Rep("p", PasswordMinLength)
  /\ res.before.now = 0
  /\ PasswordsUnchanged

----------------------------------------------------------------------------
(* SpecLogin: a registration with a phone input, then a login request with  *)
(* the same input.                                                           *)

\* lines 132-137 without the country code
LoginCleanedNoPrefix(phone) == ReSubNonDigits(phone)

\* LoginView.post, lines 132-137: drop the non-digits, drop a leading 91 of
\* 12 digits
LoginCleaned(phone) ==
  IF StartsWith91(ReSubNonDigits(phone)) /\ Len(ReSubNonDigits(phone)) = 12
  THEN SubSeq(ReSubNonDigits(phone), 3, Len(ReSubNonDigits(phone)))
  ELSE ReSubNonDigits(phone)

\* LoginView.post, lines 98-151, up to the call of authenticate: the error
\* code of the response, or the phone number handed to authenticate
login_phone(phone, password) ==
  IF ~TruthySeq(phone) /\ ~TruthyStr(password)
  THEN [error_code |-> "EMPTY_BODY", cleaned |-> <<>>]
  ELSE IF ~TruthySeq(phone) \/ ~TruthyStr(password)
  THEN [error_code |-> "MISSING_FIELDS", cleaned |-> <<>>]
  ELSE IF Len(LoginCleaned(phone)) # 10
  THEN [error_code |-> "INVALID_PHONE_FORMAT", cleaned |-> LoginCleaned(phone)]
  ELSE [error_code |-> "", cleaned |-> LoginCleaned(phone)]

\* the login request that follows the registration, with the phone input
\* and the password the farmer was registered with
Login ==
  /\ res.kind = "register"
  /\ res' = [kind |-> "login",
             registered |-> [success |-> res.out.success, err |-> res.out.err,
                             phone_number |-> IF res.out.success THEN NewFarmerPhone
                                              ELSE NoneSeq],
             login |-> login_phone(req.data.farmer.phone_number,
                                   req.data.farmer.password)]
  /\ UNCHANGED <<store, req, ncalls>>

NextLogin ==
  \/ ApplyRegister
  \/ Login

SpecLogin == InitPhone /\ [][NextLogin]_vars

LoggedIn == res.kind = "login"

LoginPhone == req.data.farmer.phone_number

LoginFormatOk == res.login.error_code # "INVALID_PHONE_FORMAT"

RegisteredFormatOk == res.registered.err # "Phone number must be 10 digits"

SameDigits ==
  /\ LoginFormatOk <=> RegisteredFormatOk
  /\ res.registered.success => res.login.cleaned = res.registered.phone_number

\* C36 as stated: for every non-empty phone string the login view accepts
\* its format iff farmer creation does, and both derive the same 10 digits.
C36_SameNormalization ==
  LoggedIn /\ LoginPhone # NoneSeq /\ LoginPhone # <<>> => SameDigits

\* C36, amended: for every phone string with a character that is not
\* whitespace the login view accepts its format iff farmer creation does,
\* and both derive the same 10 digits; a non-empty whitespace-only string is
\* refused by the login view with INVALID_PHONE_FORMAT and taken by farmer
\* creation as no phone.
C36_SameNormalizationOfDigits ==
  LoggedIn /\ LoginPhone # NoneSeq /\ LoginPhone # <<>> =>
    IF HasPhone(LoginPhone)
    THEN SameDigits
    ELSE /\ ~LoginFormatOk
         /\ res.registered.success
         /\ res.registered.phone_number = NoneSeq

\* the farmer registered with '+91 98765 43210' is looked up at login under
\* the stored 9876543210
C36_Witness ==
  /\ LoggedIn
  /\ LoginPhone = CharsPlus91Spaced
  /\ res.registered.success
  /\ res.registered.phone_number = Chars9876543210
  /\ res.login = [error_code |-> "", cleaned |-> Chars9876543210]

----------------------------------------------------------------------------
(* SpecOrder: one registration of a farmer whose data may fail several of   *)
(* the checks of _create_farmer at once.                                     *)

\* the store before the call: field officer foB holds the phone 7777777777;
\* the Role 'farmer' exists or not
OrderStore(role) ==
  [InitStore EXCEPT !.users[2].phone_number = Rep("7", 10),
                    !.roles = IF role THEN @ ELSE {"fieldofficer"}]

OrderPhones == {NoneSeq, Rep("7", 9), Rep("7", 10), <<"9", "1">> \o Rep("7", 10), Rep("8", 10)}

Without(fd, field) == [k \in DOMAIN fd \ {field} |-> fd[k]]

OrderFarmer(u, e, phone, missing) ==
  IF missing = "all" THEN NoneDict
  ELSE IF missing = "password_empty"
  THEN [FarmerData(u, e, phone) EXCEPT !.password = ""]
  ELSE Without(FarmerData(u, e, phone), missing)

InitOrder ==
  /\ store \in {OrderStore(TRUE), OrderStore(FALSE)}
  /\ req = NoRequest
  /\ res = NoResult
  /\ ncalls = 0

RegisterOrder ==
  \E u \in {"foB", "u1"}, e \in {"foB@x", "u1@x"}, phone \in OrderPhones, fo \in {1, 3},
     missing \in {"", "all", "username", "email", "password_empty", "last_name"} :
    /\ ncalls = 0
    /\ Call(Request([farmer |-> OrderFarmer(u, e, phone, missing)], fo, AllTrue, AllTrue))

SpecOrder == InitOrder /\ [][RegisterOrder]_vars

ReqFarmer == req.data.farmer

Held(field, value) ==
  \E i \in 1..Len(res.before.users) : res.before.users[i][field] = value

\* the fault of the first check that fails, in the order farmer data,
\* required fields, username, email, phone format, phone held, industry of
\* the operator, role; "" when every check passes
FirstFault ==
  IF DOMAIN ReqFarmer = {} THEN "Farmer data is required"
  ELSE IF \E f \in {"username", "email", "password", "first_name", "last_name"} :
            f \notin DOMAIN ReqFarmer \/ ReqFarmer[f] = ""
  THEN "Farmer field is required"
  ELSE IF Held("username", ReqFarmer.username) THEN "Username already exists"
  ELSE IF Held("email", ReqFarmer.email) THEN "Email already exists"
  ELSE IF HasPhone(ReqFarmer.phone_number) /\ Len(Normalized(ReqFarmer.phone_number)) # 10
  THEN "Phone number must be 10 digits"
  ELSE IF HasPhone(ReqFarmer.phone_number)
          /\ Held("phone_number", Normalized(ReqFarmer.phone_number))
  THEN "User with phone number already exists"
  ELSE IF res.before.users[req.fo].industry = NoneId
  THEN "Field officer must be assigned to an industry"
  ELSE IF "farmer" \notin res.before.roles THEN "Farmer role not found in system"
  ELSE ""

\* C37: farmer creation checks farmer data, required fields, username, email,
\* phone format, phone held, industry of the operator and the 'farmer' role in
\* this order; the first failing check alone gives the reported fault; a call
\* that fails a check, the missing role included, writes nothing, in farmer
\* creation itself and in the registration.
C37_CheckOrder ==
  Registered =>
    /\ res.out.err = FirstFault
    /\ res.out.success <=> FirstFault = ""
    /\ FirstFault # "" =>
         /\ store = res.before
         /\ create_farmer(res.before, ReqFarmer, req.fo).store = res.before
    /\ FirstFault = "" => Len(store.users) = Len(res.before.users) + 1

\* every check but the last passes: the missing role fails the registration
\* with nothing persisted
C37_Witness ==
  /\ Registered
  /\ res.out.err = "Farmer role not found in system"
  /\ ReqFarmer = FarmerData("u1", "u1@x", Rep("8", 10))
  /\ req.fo = 1
  /\ store = res.before

\* a farmer with a held username, a held email and a held phone, registered
\* by an operator without industry in a system without the role: the
\* username is reported and nothing is written
C37_FirstOfMany ==
  /\ Registered
  /\ ReqFarmer = FarmerData("foB", "foB@x", Rep("7", 10))
  /\ req.fo = 3
  /\ "farmer" \notin res.before.roles
  /\ res.out.err = "Username already exists"
  /\ store = res.before

----------------------------------------------------------------------------
(* C38 under SpecLoop *)

FarmBlock(block) == Get(block, "farm", NoneDict)

\* C38: the call modifies neither a group's farm block nor the top-level
\* farm block of the request, and the farm data a group's farm and irrigation
\* are created from is the merge of the group's block and the top-level block
\* as they were sent.
C38_MergeOnCopy ==
  /\ FarmBlock(store.data) = FarmBlock(req.data)
  /\ Len(PlotsData(store.data)) = Len(PlotsData(req.data))
  /\ \A g \in 1..Len(PlotsData(req.data)) :
       FarmBlock(PlotsData(store.data)[g]) = FarmBlock(PlotsData(req.data)[g])
  /\ store.farm # NoneId /\ store.pc \in {"irrigation", "sync"} =>
       /\ store.farm_data = MergeFarmData(FarmBlock(PlotsData(req.data)[store.g]),
                                          FarmBlock(req.data))
       /\ store.db.farms[store.farm].address = store.farm_data.address

\* the second group's farm block has no address and takes the top-level
\* one, after a first group that had its own address
C38_Witness ==
  /\ store.g = 2
  /\ store.pc = "sync"
  /\ store.farm # NoneId
  /\ "address" \notin DOMAIN FarmBlock(PlotsData(req.data)[2])
  /\ FarmBlock(PlotsData(req.data)[1]).address = "addr"
  /\ store.farm_data.address = "top"
  /\ store.db.farms[store.farm].address = "top"
  /\ store.db.farms[store.farm - 1].address = "addr"

----------------------------------------------------------------------------
(* SpecBooking: one Booking.save, of a new booking or of a stored one.  A   *)
(* datetime is <<day, minute>> in the timezone of the application, None is   *)
(* the empty tuple.                                                          *)

MaxDay == 3

NoDateTime == <<>>

DateTimes == {<<d, m>> : d \in 1..MaxDay, m \in {0, 1}}

\* datetime.date()
DateOf(dt) == dt[1]

\* end is after start, as datetimes
After(end, start) ==
  \/ end[1] > start[1]
  \/ end[1] = start[1] /\ end[2] > start[2]

\* lines 69-82 with end < start at line 81
booking_clean_same_day(b) ==
  IF b.start_date # NoDateTime /\ b.end_date # NoDateTime
     /\ DateOf(b.end_date) < DateOf(b.start_date)
  THEN {"End date must be after start date"}
  ELSE {}

\* Booking.clean, lines 69-82: the faults it raises
booking_clean(b) ==
  IF b.start_date # NoDateTime /\ b.end_date # NoDateTime
     /\ DateOf(b.end_date) <= DateOf(b.start_date)
  THEN {"End date must be after start date"}
  ELSE {}

\* Model.clean_fields for the fields of lines 35, 49 and 50, which are
\* neither blank nor null
booking_clean_fields(b) ==
  (IF b.title = "" THEN {"This field cannot be blank."} ELSE {})
  \cup (IF b.start_date = NoDateTime \/ b.end_date = NoDateTime
        THEN {"This field cannot be null."} ELSE {})

\* line 91: full_clean collects the faults of clean_fields and of clean
booking_full_clean(b) == booking_clean_fields(b) \cup booking_clean(b)

\* lines 90-92: pk is the row to write, a new one or a stored one
booking_save(bookings, pk, b) ==
  IF booking_full_clean(b) # {}
  THEN [ok |-> FALSE, errors |-> booking_full_clean(b), bookings |-> bookings]
  ELSE [ok |-> TRUE, errors |-> {},
        bookings |-> IF pk > Len(bookings) THEN Append(bookings, b)
                     ELSE [bookings EXCEPT ![pk] = b]]

StoredBooking == [title |-> "t0", start_date |-> <<1, 0>>, end_date |-> <<2, 0>>]

InitBooking ==
  /\ store \in {[bookings |-> <<>>], [bookings |-> <<StoredBooking>>]}
  /\ req = NoRequest
  /\ res = NoResult
  /\ ncalls = 0

BookingSave ==
  \E pk \in 1..(Len(store.bookings) + 1), title \in {"", "t"},
     start \in DateTimes \cup {NoDateTime}, end \in DateTimes \cup {NoDateTime} :
    /\ ncalls = 0
    /\ LET b == [title |-> title, start_date |-> start, end_date |-> end]
           out == booking_save(store.bookings, pk, b)
       IN  /\ store' = [store EXCEPT !.bookings = out.bookings]
           /\ req' = [pk |-> pk, booking |-> b]
           /\ res' = [kind |-> "booking_save", ok |-> out.ok, errors |-> out.errors,
                      before |-> store.bookings]
    /\ ncalls' = 1

SpecBooking == InitBooking /\ [][BookingSave]_vars

BookingSaved == res.kind = "booking_save"

\* C39: every stored booking ends strictly after it starts; a save of a
\* booking whose end is not after its start raises 'End date must be after
\* start date' and writes nothing; a save writes exactly when full_clean
\* finds no fault.
C39_EndAfterStart ==
  /\ \A pk \in 1..Len(store.bookings) :
       After(store.bookings[pk].end_date, store.bookings[pk].start_date)
  /\ BookingSaved =>
       /\ res.ok <=> res.errors = {}
       /\ ~res.ok => store.bookings = res.before
       /\ res.ok => store.bookings[req.pk] = req.booking
       /\ req.booking.start_date # NoDateTime /\ req.booking.end_date # NoDateTime
          /\ ~After(req.booking.end_date, req.booking.start_date)
            => /\ ~res.ok
               /\ "End date must be after start date" \in res.errors

\* the stored booking was saved again with an end one minute before its
\* start on the same day: refused, and the row is as before
C39_Witness ==
  /\ BookingSaved
  /\ res.before = <<StoredBooking>>
  /\ req.pk = 1
  /\ req.booking = [title |-> "t", start_date |-> <<2, 1>>, end_date |-> <<2, 0>>]
  /\ res.errors = {"End date must be after start date"}
  /\ store.bookings = <<StoredBooking>>

====
